---- MODULE Spec2Model ----
(***************************************************************************)
(* Model of the alerts-engine: the rule evaluator (domain/ruleEvaluator),  *)
(* the per-run orchestration (EvaluateAlertsUseCase, RunDailyAlertsUseCase)*)
(* and the alert store upsert (AlertsRepository.upsertAlerts).             *)
(*                                                                         *)
(* Strings of the program are sequences of one-character tokens, except    *)
(* that the words "value" and "AND" are single tokens.  Numbers of the     *)
(* program are integers; NaN is a separate value.                          *)
(***************************************************************************)
EXTENDS Integers, Sequences, FiniteSets, TLC

(***************************************************************************)
(* Bounds                                                                  *)
(***************************************************************************)
\* number of execute() invocations in one behaviour (also bounds the clock)
MaxRuns == 2

(***************************************************************************)
(* JavaScript string and number primitives used by the evaluator           *)
(***************************************************************************)
Digits == <<"0", "1", "2", "3", "4", "5", "6", "7", "8", "9">>

IsDigit(c) == \E i \in 1..10 : Digits[i] = c

DigitVal(c) == (CHOOSE i \in 1..10 : Digits[i] = c) - 1

NaN == [nan |-> TRUE, num |-> 0]

Num(n) == [nan |-> FALSE, num |-> n]

isNaN(x) == x.nan

\* s.slice(i) with a 1-based index
DropFirst(s, n) == IF n >= Len(s) THEN <<>> ELSE SubSeq(s, n + 1, Len(s))

startsWith(s, p) == Len(s) >= Len(p) /\ SubSeq(s, 1, Len(p)) = p

\* 1-based index of the first occurrence of p in s, 0 when there is none
indexOf(s, p) ==
  IF \E i \in 1..(Len(s) - Len(p) + 1) : SubSeq(s, i, i + Len(p) - 1) = p
    THEN CHOOSE i \in 1..(Len(s) - Len(p) + 1) :
           /\ SubSeq(s, i, i + Len(p) - 1) = p
           /\ \A j \in 1..(i - 1) : SubSeq(s, j, j + Len(p) - 1) # p
    ELSE 0

includes(s, p) == indexOf(s, p) # 0

\* s.replace(p, ''): removes the first occurrence only
replaceFirst(s, p) ==
  LET i == indexOf(s, p)
  IN  IF i = 0 THEN s
      ELSE SubSeq(s, 1, i - 1) \o DropFirst(s, i + Len(p) - 1)

RECURSIVE trimStart(_)
trimStart(s) ==
  IF s # <<>> /\ Head(s) = " " THEN trimStart(Tail(s)) ELSE s

RECURSIVE trimEnd(_)
trimEnd(s) ==
  IF s # <<>> /\ s[Len(s)] = " " THEN trimEnd(SubSeq(s, 1, Len(s) - 1)) ELSE s

trim(s) == trimEnd(trimStart(s))

\* length of the longest prefix of s made of digits
RECURSIVE digitRun(_)
digitRun(s) ==
  IF s # <<>> /\ IsDigit(Head(s)) THEN 1 + digitRun(Tail(s)) ELSE 0

RECURSIVE digitsValue(_, _)
digitsValue(s, acc) ==
  IF s = <<>> THEN acc ELSE digitsValue(Tail(s), 10 * acc + DigitVal(Head(s)))

\* parseFloat: leading blanks, an optional sign, then digits; what follows
\* the digits is ignored; no digit gives NaN
parseFloat(str) ==
  LET s    == trimStart(str)
      neg  == s # <<>> /\ Head(s) = "-"
      body == IF s # <<>> /\ Head(s) \in {"-", "+"} THEN Tail(s) ELSE s
      n    == digitRun(body)
  IN  IF n = 0 THEN NaN
      ELSE LET v == digitsValue(SubSeq(body, 1, n), 0)
           IN  Num(IF neg THEN 0 - v ELSE v)

\* s.split(sep)
RECURSIVE split(_, _)
split(s, sep) ==
  LET i == indexOf(s, sep)
  IN  IF i = 0 THEN <<s>>
      ELSE <<SubSeq(s, 1, i - 1)>> \o split(DropFirst(s, i + Len(sep) - 1), sep)

RECURSIVE toDigits(_)
toDigits(n) ==
  IF n < 10 THEN <<Digits[n + 1]>> ELSE toDigits(n \div 10) \o <<Digits[(n % 10) + 1]>>

\* String(n) for an integer n
toStr(n) == IF n < 0 THEN <<"-">> \o toDigits(0 - n) ELSE toDigits(n)

\* index of the first token at or after i that is not a blank (Len(s)+1 at the end)
RECURSIVE skipBlanks(_, _)
skipBlanks(s, i) ==
  IF i <= Len(s) /\ s[i] = " " THEN skipBlanks(s, i + 1) ELSE i

(***************************************************************************)
(* Rules, metric data and alerts (domain/alert)                            *)
(***************************************************************************)
\* the absent optional `trend` of a rule
NoTrend == [windowPoints |-> 0, rule |-> ""]

\* optional string fields (window, units, notes) are "" when absent, which
\* JavaScript treats as falsy as well; an absent threshold is 0

(***************************************************************************)
(* domain/ruleEvaluator.ts                                                 *)
(***************************************************************************)
ALLOWED_OPERATORS ==
  << <<"<", "=">>, <<">", "=">>, <<"<">>, <<">">>, <<"=", "=">>, <<"!", "=">> >>

\* variant of sortedOps: the operators sorted shortest first
sortedOpsShortestFirst ==
  SelectSeq(ALLOWED_OPERATORS, LAMBDA op : Len(op) = 1)
    \o SelectSeq(ALLOWED_OPERATORS, LAMBDA op : Len(op) = 2)

\* [...ALLOWED_OPERATORS].sort((a, b) => b.length - a.length), a stable sort
sortedOps ==
  LET two == SelectSeq(ALLOWED_OPERATORS, LAMBDA op : Len(op) = 2)
      one == SelectSeq(ALLOWED_OPERATORS, LAMBDA op : Len(op) = 1)
  IN  two \o one

\* the first operator of sortedOps found in the condition, <<>> for null
findOperator(condition) ==
  IF \E k \in 1..Len(sortedOps) : includes(condition, sortedOps[k])
    THEN sortedOps[CHOOSE k \in 1..Len(sortedOps) :
                     /\ includes(condition, sortedOps[k])
                     /\ \A j \in 1..(k - 1) : ~includes(condition, sortedOps[j])]
    ELSE <<>>

compareValues(value, operator, threshold) ==
  CASE operator = <<"<", "=">> -> value <= threshold
    [] operator = <<">", "=">> -> value >= threshold
    [] operator = <<"<">>      -> value < threshold
    [] operator = <<">">>      -> value > threshold
    [] operator = <<"=", "=">> -> value = threshold
    [] operator = <<"!", "=">> -> value # threshold

buildEnrichedPayload(value, rule, metadata) ==
  [ value             |-> value,
    value_pct         |-> value * 100,
    threshold         |-> rule.threshold,
    units             |-> IF rule.units = "" THEN "ratio" ELSE rule.units,
    window            |-> rule.window,
    inputs            |-> rule.inputs,
    base_ts           |-> metadata.base_ts,
    oficial_fx_source |-> metadata.oficial_fx_source,
    notes             |-> rule.notes ]

\* the result of an evaluation that threw
Thrown == [threw |-> TRUE]

Result(triggered, value, thresholdRepr, rule, metadata, reason) ==
  [ threw     |-> FALSE,
    triggered |-> triggered,
    value     |-> value,
    threshold |-> thresholdRepr,
    level     |-> rule.level,
    payload   |-> buildEnrichedPayload(value, rule, metadata),
    reason    |-> reason ]

\* the threshold text left after the operator and a leading `value` are removed
thresholdStrOf(condition, operator) ==
  LET t == trim(replaceFirst(condition, operator))
  IN  IF startsWith(t, <<"value">>)
        THEN LET rest == Tail(t)
             IN  IF rest # <<>> /\ Head(rest) = " " THEN trim(rest) ELSE trim(t)
        ELSE t

\* lines 70-85 of evaluateThreshold, for the operator and the threshold text
compareThreshold(rule, value, metadata, operator, thresholdStr, threshold) ==
  IF isNaN(threshold) THEN Thrown
  ELSE Result(compareValues(value, operator, threshold.num),
              value, thresholdStr, rule, metadata, "")

\* lines 62-69 of evaluateThreshold, for the operator found
parseThreshold(rule, value, metadata, operator, thresholdStr) ==
  compareThreshold(rule, value, metadata, operator, thresholdStr,
                   parseFloat(thresholdStr))

withOperator(rule, value, metadata, operator) ==
  IF operator = <<>> THEN Thrown
  ELSE parseThreshold(rule, value, metadata, operator,
                      thresholdStrOf(rule.condition, operator))

evaluateThreshold(rule, value, metadata) ==
  withOperator(rule, value, metadata, findOperator(rule.condition))

\* start and length of the number captured by /(\d+\.?\d*)\s*<\s*value/,
\* <<0, 0>> when the text has no match
lowerMatch(s) ==
  LET ok(i) == /\ IsDigit(s[i])
               /\ LET a == skipBlanks(s, i + digitRun(DropFirst(s, i - 1)))
                  IN  /\ a <= Len(s) /\ s[a] = "<"
                      /\ LET b == skipBlanks(s, a + 1)
                         IN  b <= Len(s) /\ s[b] = "value"
  IN  IF \E i \in 1..Len(s) : ok(i)
        THEN LET i == CHOOSE i \in 1..Len(s) :
                        ok(i) /\ \A j \in 1..(i - 1) : ~ok(j)
             IN  <<i, digitRun(DropFirst(s, i - 1))>>
        ELSE <<0, 0>>

\* start and length of the number captured by /value\s*<=\s*(\d+\.?\d*)/
upperMatch(s) ==
  LET numAt(i) == LET a == skipBlanks(s, i + 1)
                  IN  IF a + 1 <= Len(s) /\ s[a] = "<" /\ s[a + 1] = "="
                        THEN skipBlanks(s, a + 2) ELSE 0
      ok(i) == /\ s[i] = "value"
               /\ numAt(i) # 0 /\ numAt(i) <= Len(s) /\ IsDigit(s[numAt(i)])
  IN  IF \E i \in 1..Len(s) : ok(i)
        THEN LET i == CHOOSE i \in 1..Len(s) :
                        ok(i) /\ \A j \in 1..(i - 1) : ~ok(j)
             IN  <<numAt(i), digitRun(DropFirst(s, numAt(i) - 1))>>
        ELSE <<0, 0>>

evaluateBand(rule, value, metadata) ==
  LET parts == split(rule.condition, <<" ", "AND", " ">>)
  IN  IF Len(parts) # 2 THEN Thrown
      ELSE LET lowerPart == trim(parts[1])
               upperPart == trim(parts[2])
               lm == lowerMatch(lowerPart)
               um == upperMatch(upperPart)
           IN  IF lm[1] = 0 \/ um[1] = 0 THEN Thrown
               ELSE LET lowerBound ==
                          parseFloat(SubSeq(lowerPart, lm[1], lm[1] + lm[2] - 1)).num
                        upperBound ==
                          parseFloat(SubSeq(upperPart, um[1], um[1] + um[2] - 1)).num
                    IN  Result(value > lowerBound /\ value <= upperBound, value,
                               <<"(">> \o toStr(lowerBound) \o <<",", " ">>
                                 \o toStr(upperBound) \o <<"]">>,
                               rule, metadata, "")

\* a < b on JavaScript numbers: false when either side is NaN
jsLess(a, b) == ~a.nan /\ ~b.nan /\ a.num < b.num

evaluateNonDecreasing(values) ==
  IF \E i \in 2..Len(values) : jsLess(values[i], values[i - 1])
    THEN [triggered |-> FALSE, reason |-> "trend_not_non_decreasing",
          trendValues |-> values]
    ELSE [triggered |-> TRUE, reason |-> "trend_non_decreasing",
          trendValues |-> values]

\* variant of evaluateAtLeast4Of5Increasing: equal neighbours count as an
\* increase
evaluateAtLeast4NotDecreasing(values) ==
  LET increasingCount ==
        Cardinality({i \in 2..Len(values) : ~jsLess(values[i], values[i - 1])})
      triggered == increasingCount >= 4
  IN  [triggered |-> triggered,
       reason |-> IF triggered THEN "trend_at_least_4_increasing"
                  ELSE "trend_insufficient_increases",
       trendValues |-> values]

evaluateAtLeast4Of5Increasing(values) ==
  LET increasingCount ==
        Cardinality({i \in 2..Len(values) : jsLess(values[i - 1], values[i])})
      triggered == increasingCount >= 4
  IN  [triggered |-> triggered,
       reason |-> IF triggered THEN "trend_at_least_4_increasing"
                  ELSE "trend_insufficient_increases",
       trendValues |-> values]

\* values.slice(-n): the last n values, and the whole array when n = 0
sliceLast(values, n) ==
  IF n = 0 \/ n >= Len(values) THEN values
  ELSE SubSeq(values, Len(values) - n + 1, Len(values))

\* variant of evaluateTrend: the number of values is not checked
evaluateTrendAnyLength(trendConfig, values) ==
  LET recentValues == sliceLast(values, trendConfig.windowPoints)
  IN  CASE trendConfig.rule = "non_decreasing" ->
             evaluateNonDecreasing(recentValues)
        [] trendConfig.rule = "at_least_4_of_5_increasing" ->
             evaluateAtLeast4Of5Increasing(recentValues)
        [] OTHER ->
             [triggered |-> FALSE, reason |-> "unsupported_trend_rule",
              trendValues |-> recentValues]

evaluateTrend(trendConfig, values) ==
  IF Len(values) < trendConfig.windowPoints
    THEN [triggered |-> FALSE, reason |-> "insufficient_points",
          trendValues |-> values]
    ELSE LET recentValues == sliceLast(values, trendConfig.windowPoints)
         IN  CASE trendConfig.rule = "non_decreasing" ->
                    evaluateNonDecreasing(recentValues)
               [] trendConfig.rule = "at_least_4_of_5_increasing" ->
                    evaluateAtLeast4Of5Increasing(recentValues)
               [] OTHER ->
                    [triggered |-> FALSE, reason |-> "unsupported_trend_rule",
                     trendValues |-> recentValues]

\* variant of combineTrend: the result of the trend is ignored
combineIgnoringTrend(thresholdResult, trendResult) ==
  [thresholdResult EXCEPT !.triggered = TRUE,
                          !.reason = "threshold_and_trend_met"]

\* lines 152-164 of evaluateThresholdWithTrend
combineTrend(thresholdResult, trendResult) ==
  IF ~trendResult.triggered
    THEN [thresholdResult EXCEPT !.triggered = FALSE,
                                 !.reason = trendResult.reason]
    ELSE [thresholdResult EXCEPT !.triggered = TRUE,
                                 !.reason = "threshold_and_trend_met"]

\* variant of afterThreshold: the trend is evaluated whatever the threshold
\* result is
afterThresholdNoShortCircuit(rule, trendValues, thresholdResult) ==
  IF thresholdResult.threw THEN Thrown
  ELSE combineTrend(thresholdResult, evaluateTrend(rule.trend, trendValues))

\* lines 142-164 of evaluateThresholdWithTrend
afterThreshold(rule, trendValues, thresholdResult) ==
  IF thresholdResult.threw THEN Thrown
  ELSE IF ~thresholdResult.triggered
    THEN [thresholdResult EXCEPT !.reason = "threshold_not_met"]
  ELSE combineTrend(thresholdResult, evaluateTrend(rule.trend, trendValues))

evaluateThresholdWithTrend(rule, value, trendValues, metadata) ==
  afterThreshold(rule, trendValues, evaluateThreshold(rule, value, metadata))

\* RuleEvaluator.evaluate; value is a parsed number (possibly NaN)
\* variant of evaluate: a value that is not a number is not triggered
evaluateNaNNotTriggered(rule, value, trendValues, metadata) ==
  IF isNaN(value) THEN [threw |-> FALSE, triggered |-> FALSE]
  ELSE CASE rule.type = "threshold" -> evaluateThreshold(rule, value.num, metadata)
         [] rule.type = "band" -> evaluateBand(rule, value.num, metadata)
         [] rule.type = "threshold_with_trend" ->
              evaluateThresholdWithTrend(rule, value.num, trendValues, metadata)
         [] OTHER -> Thrown

evaluate(rule, value, trendValues, metadata) ==
  IF isNaN(value) THEN Thrown
  ELSE CASE rule.type = "threshold" -> evaluateThreshold(rule, value.num, metadata)
         [] rule.type = "band" -> evaluateBand(rule, value.num, metadata)
         [] rule.type = "threshold_with_trend" ->
              evaluateThresholdWithTrend(rule, value.num, trendValues, metadata)
         [] OTHER -> Thrown

(***************************************************************************)
(* The environment: the rule table and the metrics source                  *)
(***************************************************************************)
MetricIds == {"m1", "m2", "m9"}

Rule(alertId, metricId, level, type, condition, message, window, trend) ==
  [ alertId |-> alertId, metricId |-> metricId, level |-> level, type |-> type,
    condition |-> condition, message |-> message, threshold |-> 0,
    window |-> window, units |-> "", inputs |-> <<>>, notes |-> "",
    trend |-> trend ]

\* value <= 2
CondLe2 == <<"value", " ", "<", "=", " ", "2">>
\* value >= 1
CondGe1 == <<"value", " ", ">", "=", " ", "1">>
\* no operator at all
CondBad == <<"value", " ", "~", " ", "2">>
\* 0 < value AND value <= 3
CondBand ==
  <<"0", " ", "<", " ", "value", " ", "AND", " ", "value", " ", "<", "=", " ", "3">>

rBad == Rule("a0", "m1", "red", "threshold", CondBad, "bad", "", NoTrend)
rLow == Rule("a1", "m1", "red", "threshold", CondLe2, "low", "", NoTrend)
rLowAmber == Rule("a1", "m1", "amber", "threshold", CondLe2, "low2", "", NoTrend)
rTrend ==
  Rule("a2", "m2", "amber", "threshold_with_trend", CondGe1, "up", "",
       [windowPoints |-> 2, rule |-> "non_decreasing"])
rMissing == Rule("a4", "m9", "amber", "threshold", CondLe2, "none", "", NoTrend)
rBand == Rule("a5", "m1", "amber", "band", CondBand, "band", "7d", NoTrend)
\* rules over a metric that has no points: with a window, with a trend
rEmptyWindow == Rule("a6", "m9", "amber", "threshold", CondLe2, "w", "7d", NoTrend)
rEmptyTrend ==
  Rule("a7", "m9", "amber", "threshold_with_trend", CondGe1, "t", "",
       [windowPoints |-> 2, rule |-> "non_decreasing"])

\* contents of alert_rules, each in the order of the query of getRules
\* (ORDER BY level DESC, alert_id)
RuleSets ==
  { <<>>,
    <<rBad, rLow, rTrend>>,
    <<rLowAmber, rMissing, rBand, rEmptyWindow, rEmptyTrend>> }

Point(ts, value) == [ts |-> ts, value |-> value, oficial_fx_source |-> ""]

Metric(up, points) == [up |-> up, points |-> points]

\* states of the metrics source: per metric id, whether requests for it
\* succeed and its points in ascending time order
Snapshots ==
  { [m \in MetricIds |->
       CASE m = "m1" -> Metric(TRUE, <<Point(1, <<"1">>)>>)
         [] m = "m2" -> Metric(TRUE, <<Point(1, <<"1">>), Point(2, <<"2">>)>>)
         [] OTHER    -> Metric(TRUE, <<>>)],
    [m \in MetricIds |->
       CASE m = "m1" -> Metric(TRUE, <<Point(1, <<"2">>)>>)
         [] m = "m2" -> Metric(FALSE, <<>>)
         [] OTHER    -> Metric(TRUE, <<>>)],
    [m \in MetricIds |->
       CASE m = "m1" -> Metric(TRUE, <<Point(1, <<"1">>), Point(2, <<"x">>)>>)
         [] m = "m2" -> Metric(TRUE, <<Point(1, <<"2">>), Point(2, <<"1">>)>>)
         [] OTHER    -> Metric(TRUE, <<>>)] }

\* outcomes of the health probe of the metrics source
HealthOutcomes == {"healthy", "degraded", "fail"}

(***************************************************************************)
(* application/use-cases/evaluate-alerts.use-case.ts, one rule             *)
(***************************************************************************)
FetchThrew == [kind |-> "throw"]
NoData == [kind |-> "null"]

MetricData(value, ts, trendValues, fx) ==
  [kind |-> "data", value |-> value, ts |-> ts, trendValues |-> trendValues,
   oficial_fx_source |-> fx]

\* MetricsClient.getMetricPoints through FetchMetricWindowUseCase
getMetricPoints(src, metricId) ==
  IF ~src[metricId].up THEN FetchThrew
  ELSE [kind |-> "ok", points |-> src[metricId].points]

\* a metric whose latest-values response is given explicitly
MetricWithSummary(up, points, items, missing) ==
  [up |-> up, points |-> points, items |-> items, missing |-> missing]

\* MetricsClient.getLatestMetrics through FetchLatestMetricsUseCase, one id;
\* the response is the given one, or else the latest point of the metric
getLatestMetrics(src, metricId) ==
  IF ~src[metricId].up THEN FetchThrew
  ELSE IF "items" \in DOMAIN src[metricId]
    THEN [kind |-> "ok", items |-> src[metricId].items,
          missing |-> src[metricId].missing]
  ELSE LET pts == src[metricId].points
       IN  IF pts = <<>>
             THEN [kind |-> "ok", items |-> <<>>, missing |-> {metricId}]
             ELSE [kind |-> "ok",
                   items |-> <<[metric_id |-> metricId] @@ pts[Len(pts)]>>,
                   missing |-> {}]

fetchTrendData(rule, src) ==
  LET windowResult == getMetricPoints(src, rule.metricId)
  IN  IF windowResult.kind = "throw" THEN FetchThrew
      ELSE IF Len(windowResult.points) = 0 THEN NoData
      ELSE LET latestPoint == windowResult.points[Len(windowResult.points)]
           IN  MetricData(parseFloat(latestPoint.value), latestPoint.ts,
                          [i \in 1..Len(windowResult.points) |->
                             parseFloat(windowResult.points[i].value)],
                          latestPoint.oficial_fx_source)

fetchWindowData(rule, src) ==
  LET windowResult == getMetricPoints(src, rule.metricId)
  IN  IF windowResult.kind = "throw" THEN FetchThrew
      ELSE IF Len(windowResult.points) = 0 THEN NoData
      ELSE LET latestPoint == windowResult.points[Len(windowResult.points)]
           IN  MetricData(parseFloat(latestPoint.value), latestPoint.ts, <<>>,
                          latestPoint.oficial_fx_source)

\* variant of fetchLatestData: a metric reported missing is an error
fetchLatestDataStrict(rule, src) ==
  LET latestResult == getLatestMetrics(src, rule.metricId)
  IN  IF latestResult.kind = "throw" THEN FetchThrew
      ELSE IF rule.metricId \in latestResult.missing THEN FetchThrew
      ELSE LET metricSummary == latestResult.items[1]
           IN  MetricData(parseFloat(metricSummary.value), metricSummary.ts, <<>>,
                          metricSummary.oficial_fx_source)

fetchLatestData(rule, src) ==
  LET latestResult == getLatestMetrics(src, rule.metricId)
  IN  IF latestResult.kind = "throw" THEN FetchThrew
      ELSE IF rule.metricId \in latestResult.missing THEN NoData
      ELSE IF \A i \in 1..Len(latestResult.items) :
                latestResult.items[i].metric_id # rule.metricId
        THEN NoData
      ELSE LET metricSummary ==
                 latestResult.items[CHOOSE i \in 1..Len(latestResult.items) :
                   /\ latestResult.items[i].metric_id = rule.metricId
                   /\ \A j \in 1..(i - 1) :
                        latestResult.items[j].metric_id # rule.metricId]
           IN  MetricData(parseFloat(metricSummary.value), metricSummary.ts, <<>>,
                          metricSummary.oficial_fx_source)

\* variant of fetchMetricData: every rule is given the latest value
fetchMetricDataLatestOnly(rule, src) == fetchLatestData(rule, src)

fetchMetricData(rule, src) ==
  IF rule.type = "threshold_with_trend" /\ rule.trend # NoTrend
    THEN fetchTrendData(rule, src)
  ELSE IF rule.window # "" THEN fetchWindowData(rule, src)
  ELSE fetchLatestData(rule, src)

evaluateRuleCondition(rule, metricData) ==
  evaluate(rule, metricData.value, metricData.trendValues,
           [base_ts |-> metricData.ts,
            oficial_fx_source |-> metricData.oficial_fx_source])

\* variant of createAlert: the level is derived from the size of the value
createAlertLevelByValue(rule, metricData, evaluation) ==
  [ alertId |-> rule.alertId,
    ts      |-> metricData.ts,
    level   |-> IF metricData.value.num >= 2 THEN "red" ELSE "amber",
    message |-> rule.message,
    payload |-> evaluation.payload ]

createAlert(rule, metricData, evaluation) ==
  [ alertId |-> rule.alertId,
    ts      |-> metricData.ts,
    level   |-> evaluation.level,
    message |-> rule.message,
    payload |-> evaluation.payload ]

\* lines 113-119 of evaluateRule
decide(rule, metricData, evaluation) ==
  IF evaluation.threw THEN <<"throw">>
  ELSE IF evaluation.triggered
    THEN <<"alert", createAlert(rule, metricData, evaluation)>>
  ELSE <<"null">>

\* lines 108-119 of evaluateRule
evaluateFetched(rule, metricData) ==
  IF metricData.kind = "throw" THEN <<"throw">>
  ELSE IF metricData.kind = "null" THEN <<"null">>
  ELSE decide(rule, metricData, evaluateRuleCondition(rule, metricData))

\* evaluateRule: <<"throw">>, <<"null">> or <<"alert", alert>>
evaluateRule(rule, src) == evaluateFetched(rule, fetchMetricData(rule, src))

\* evaluateRule is a function of the rule and of what the metrics source
\* answers: its value for every configured rule over every source state
Configured == UNION {{rs[k] : k \in 1..Len(rs)} : rs \in RuleSets}

evaluateRuleOver ==
  [rule \in Configured |-> [src \in Snapshots |-> evaluateRule(rule, src)]]

\* the body of the for loop of EvaluateAlertsUseCase.execute for one rule:
\* the alerts collected so far, extended by the alert of this rule if any;
\* an error thrown by evaluateRule is caught and logged
collect(alerts, outcome) ==
  IF outcome[1] = "alert" THEN Append(alerts, outcome[2]) ELSE alerts

\* variant of loopNext: an error thrown by a rule ends the loop
loopNextStopOnThrow(ruleList, i, outcome) ==
  IF outcome[1] = "throw" THEN Len(ruleList) + 1 ELSE i + 1

\* variant of loopNext: the loop ends after its first rule
loopNextOnlyFirst(ruleList, i, outcome) == Len(ruleList) + 1

\* the position of the loop after the rule at position i
loopNext(ruleList, i, outcome) == i + 1

(***************************************************************************)
(* infrastructure/db/alertsRepo.ts: the alerts table                       *)
(***************************************************************************)
Key(row) == <<row.alert_id, row.ts>>

AlertKey(alert) == <<alert.alertId, alert.ts>>

Row(alert, t) ==
  [ alert_id |-> alert.alertId, ts |-> alert.ts, level |-> alert.level,
    message |-> alert.message, payload |-> alert.payload, created_at |-> t ]

\* variant of xmaxIsZero: every returned row is reported as inserted
xmaxAlwaysZero(conflict) == TRUE

\* RETURNING (xmax = 0) AS inserted: true for a row that the statement
\* inserted, false for a row that it updated
xmaxIsZero(conflict) == conflict = {}

\* variant of insertOnConflict: a plain INSERT into a table without the
\* unique constraint
insertPlain(table, alert, t) ==
  [ table |-> table \cup {Row(alert, t)}, inserted |-> TRUE ]

\* INSERT ... ON CONFLICT (alert_id, ts) DO UPDATE SET level, message,
\* payload, created_at = NOW() RETURNING (xmax = 0) AS inserted
insertOnConflict(table, alert, t) ==
  LET conflict == {row \in table : Key(row) = AlertKey(alert)}
  IN  [ table    |-> (table \ conflict) \cup {Row(alert, t)},
        inserted |-> xmaxIsZero(conflict) ]

(***************************************************************************)
(* State                                                                   *)
(***************************************************************************)
\* the execute() invocations that may be in flight on one
\* RunDailyAlertsUseCase: 1 is the scheduled run, 2 a later invocation
Runs == {1, 2}

VARIABLES
  ruleStore,      \* the rows of alert_rules, in the order getRules returns them
  source,         \* the state of the metrics source
  pool,           \* TRUE when ALERTS_DATABASE_URL is set (AlertsRepository.pool)
  store,          \* the rows of alerts.alerts
  alerts_emitted, \* the rows of public.alerts_emitted
  cron,           \* the CronScheduler and the tasks of node-cron
  now,            \* the clock: Date.now() and NOW(); ticks when a run starts
  rules,          \* EvaluateAlertsUseCase.rules
  lastRunAlerts,  \* RunDailyAlertsUseCase.lastRunAlerts
  lastRunAt,      \* RunDailyAlertsUseCase.lastRunAt, 0 for null
  pc,             \* per run: the await the run is suspended at, or "idle"
  outcome,        \* per run: "none", "pending", "resolved" or "rejected"
  loopRules,      \* per run: the array the for loop iterates
  idx,            \* per run: position of the rule whose fetch is awaited
  alerts,         \* per run: the local `alerts` of EvaluateAlertsUseCase.execute
  tx,             \* per run: the upsertAlerts call in progress
  obs,            \* per run: what the run has done so far (history)
  lastDone,       \* history: the latest execute() resolved and the environment
                  \* has not changed since it started
  routeRun,       \* the fields of the RunDailyAlertsUseCase that health.routes
                  \* constructs for its HealthService
  health,         \* the latest response of GET /health
  healthObs,      \* history: the summary of the scheduler's use case when
                  \* that response was computed
  call,           \* a call of RuleEvaluator.evaluate or of fetchMetricData:
                  \* its arguments and, once it has returned or thrown, its
                  \* result
  req             \* a call of MetricsClient.makeRequest: the position of its
                  \* loop, its locals and what it has done so far

vars == <<cron, ruleStore, source, pool, alerts_emitted, store, now, rules, lastRunAlerts, lastRunAt,
          pc, outcome, loopRules, idx, alerts, tx, obs, lastDone,
          routeRun, health, healthObs, call, req>>

healthVars == <<routeRun, health, healthObs>>

envVars == <<ruleStore, source, pool, alerts_emitted>>

NoTx == [phase |-> "none", i |-> 0, del |-> {}, add |-> {},
         inserted |-> 0, updated |-> 0]

\* upsertAlerts has been called and awaits pool.connect()
TxCall == [NoTx EXCEPT !.phase = "call"]

NewObs ==
  [ probe        |-> "none",   \* outcome of the health probe of this run
    loads        |-> 0,        \* getRules calls
    loadFailed   |-> FALSE,    \* getRules threw
    fetches      |-> 0,        \* rules whose metric data was requested
    threw        |-> 0,        \* rules whose fetch or evaluation threw
    upsertCalls  |-> 0,        \* upsertAlerts calls
    upsertFailed |-> 0,        \* upsertAlerts calls that threw
    undone       |-> 0,        \* statements that had succeeded in the latest
                               \* upsertAlerts call that threw
    resolved     |-> 0,        \* rules whose evaluation has ended
    verdicts     |-> <<>>,     \* per rule taken: "alert", "null" or "throw"
    calledAfter  |-> <<>>,     \* per upsertAlerts call, `resolved` at the call
    results      |-> <<>>,     \* the UpsertResult of each call that returned
    store0       |-> {},       \* alerts table when the run started
    alerts0      |-> <<>>,     \* lastRunAlerts when the run started
    at0          |-> 0,        \* lastRunAt when the run started
    first        |-> FALSE,    \* lastDone when the run started
    stable       |-> TRUE ]    \* the environment has not changed since the start

\* private lastRunAlerts: Alert[] = []; private lastRunAt = null
NewRunDaily == [lastRunAlerts |-> <<>>, lastRunAt |-> 0]

\* no GET /health has been answered yet
NoHealth ==
  [ ok |-> FALSE, metricsApi |-> [reachable |-> FALSE, status |-> ""],
    lastRunAt |-> 0, alertsCountLastRun |-> 0 ]

NoHealthObs ==
  [ served |-> FALSE, afterSuccess |-> FALSE,
    info |-> [lastRunAt |-> 0, alertsCount |-> 0] ]

\* RuleEvaluator.evaluate is not being called
NoCall == [kind |-> "none"]

\* MetricsClient.makeRequest is not being called
NoRequest == [kind |-> "none"]

\* new CronScheduler(runDaily): private task = null; no task of node-cron
\* exists. task is the id of this.task, 0 for null; scheduled holds the ids
\* of the tasks that node-cron will fire; cb is the state of the callback
\* that awaits each run
CronScheduler(enabled) ==
  [ enabled   |-> enabled,     \* config.ENABLE_SCHEDULER
    task      |-> 0,
    scheduled |-> {},
    created   |-> 0,           \* tasks created by cron.schedule
    stopped   |-> FALSE,       \* stop() has returned and start() has not
                               \* been called since
    caught    |-> FALSE,       \* a callback has caught an error of runDaily
    cb        |-> [r \in Runs |-> "none"] ]

\* the use cases are constructed: no run has been made
Constructed ==
  /\ call = NoCall
  /\ req = NoRequest
  /\ routeRun = NewRunDaily
  /\ health = NoHealth
  /\ healthObs = NoHealthObs
  /\ store = {}
  /\ now = 0
  /\ rules = <<>>
  /\ lastRunAlerts = <<>>
  /\ lastRunAt = 0
  /\ pc = [r \in Runs |-> "idle"]
  /\ outcome = [r \in Runs |-> "none"]
  /\ loopRules = [r \in Runs |-> <<>>]
  /\ idx = [r \in Runs |-> 0]
  /\ alerts = [r \in Runs |-> <<>>]
  /\ tx = [r \in Runs |-> NoTx]
  /\ obs = [r \in Runs |-> NewObs]
  /\ lastDone = FALSE

\* the service has started over any rule set and metrics source, with or
\* without a database
Started ==
  /\ Constructed
  /\ ruleStore \in RuleSets
  /\ source \in Snapshots
  /\ pool \in BOOLEAN

\* alerts_emitted is empty, as the migration creates it
Init == Started /\ alerts_emitted = {} /\ cron = CronScheduler(TRUE)

(***************************************************************************)
(* infrastructure/db/alertsRepo.ts: reads                                  *)
(***************************************************************************)
\* AlertsRepository.getRules when the query succeeds
getRules == IF ~pool THEN <<>> ELSE ruleStore

\* the alerts table as the transaction of run r sees it
View(r) == (store \ tx[r].del) \cup tx[r].add

(***************************************************************************)
(* application/use-cases/run-daily-alerts.use-case.ts                      *)
(***************************************************************************)
\* variant of healthCheckThrows: the error of getHealth is only logged
healthCheckSwallows(probe) == FALSE

\* variant of healthCheckThrows: any status but 'healthy' aborts the run
healthCheckRequiresHealthy(probe) == probe # "healthy"

\* checkMetricsApiHealth throws exactly when getHealth throws
healthCheckThrows(probe) == probe = "fail"

\* variant of loadRulesThrows: the error of getRules is only logged
loadRulesSwallows(failed) == FALSE

\* loadRules rethrows the error of getRules
loadRulesThrows(failed) == failed

\* variant of persistSkips: the store is called for every batch
persistNeverSkips(batch) == FALSE

\* persistAlerts returns without calling the store for an empty batch
persistSkips(batch) == Len(batch) = 0

\* RunDailyAlertsUseCase.getLastRunAlerts
getLastRunAlerts == lastRunAlerts

\* RunDailyAlertsUseCase.getLastRunInfo
getLastRunInfo == [lastRunAt |-> lastRunAt, alertsCount |-> Len(lastRunAlerts)]

\* EvaluateAlertsUseCase.execute stores the batch only when it is not empty
storeSkips(batch) == ~(Len(batch) > 0)

\* variant of Reject: the error is swallowed and execute() never settles
RejectNeverSettles(r) ==
  UNCHANGED <<pc, outcome, lastDone, lastRunAlerts, lastRunAt>>

\* variant of Reject: the catch block also clears the last-run summary
RejectClearing(r) ==
  /\ pc' = [pc EXCEPT ![r] = "idle"]
  /\ outcome' = [outcome EXCEPT ![r] = "rejected"]
  /\ lastDone' = FALSE
  /\ lastRunAlerts' = <<>>
  /\ lastRunAt' = 0

\* execute() of run r rejects
Reject(r) ==
  /\ pc' = [pc EXCEPT ![r] = "idle"]
  /\ outcome' = [outcome EXCEPT ![r] = "rejected"]
  /\ lastDone' = FALSE
  /\ UNCHANGED <<lastRunAlerts, lastRunAt>>

\* execute() of run r reaches lines 42-43 and resolves
Complete(r, batch) ==
  /\ pc' = [pc EXCEPT ![r] = "idle"]
  /\ outcome' = [outcome EXCEPT ![r] = "resolved"]
  /\ lastRunAlerts' = batch
  /\ lastRunAt' = now
  /\ lastDone' = obs[r].stable

\* upsertAlerts is called by run r
Called(o) ==
  [o EXCEPT !.upsertCalls = @ + 1, !.calledAfter = Append(@, o.resolved)]

\* persistAlerts(batch) is entered by run r; o is the history so far
Persist(r, batch, o) ==
  IF persistSkips(batch)
    THEN /\ Complete(r, batch)
         /\ obs' = [obs EXCEPT ![r] = o]
         /\ tx' = [tx EXCEPT ![r] = NoTx]
    ELSE /\ pc' = [pc EXCEPT ![r] = "persist"]
         /\ tx' = [tx EXCEPT ![r] = TxCall]
         /\ obs' = [obs EXCEPT ![r] = Called(o)]
         /\ UNCHANGED <<outcome, lastRunAlerts, lastRunAt, lastDone>>

\* the for loop of EvaluateAlertsUseCase.execute has ended for run r with
\* the alerts `batch`
AfterLoop(r, batch, o) ==
  IF storeSkips(batch)
    THEN Persist(r, batch, o)
    ELSE /\ pc' = [pc EXCEPT ![r] = "store"]
         /\ tx' = [tx EXCEPT ![r] = TxCall]
         /\ obs' = [obs EXCEPT ![r] = Called(o)]
         /\ UNCHANGED <<outcome, lastRunAlerts, lastRunAt, lastDone>>

\* execute() is entered by run r, which awaits getHealth
Invoke(r) ==
  /\ pc[r] = "idle"
  /\ now < MaxRuns
  /\ now' = now + 1
  /\ pc' = [pc EXCEPT ![r] = "health"]
  /\ outcome' = [outcome EXCEPT ![r] = "pending"]
  /\ loopRules' = [loopRules EXCEPT ![r] = <<>>]
  /\ idx' = [idx EXCEPT ![r] = 0]
  /\ alerts' = [alerts EXCEPT ![r] = <<>>]
  /\ tx' = [tx EXCEPT ![r] = NoTx]
  /\ obs' = [obs EXCEPT ![r] = [NewObs EXCEPT !.store0 = store,
                                              !.alerts0 = lastRunAlerts,
                                              !.at0 = lastRunAt,
                                              !.first = lastDone]]
  /\ UNCHANGED <<envVars, store, rules, lastRunAlerts, lastRunAt, lastDone>>

\* execute() is invoked: the run starts and awaits getHealth
Execute(r) ==
  /\ UNCHANGED <<healthVars, call, req, cron>>
  /\ Invoke(r)

\* getHealth settles: on failure the run rejects, otherwise
\* EvaluateAlertsUseCase.execute starts and awaits getRules
HealthReturn(r) ==
  /\ UNCHANGED <<healthVars, call, req, cron>>
  /\ pc[r] = "health"
  /\ \E probe \in HealthOutcomes :
       LET o == [obs[r] EXCEPT !.probe = probe]
       IN  IF healthCheckThrows(probe)
             THEN /\ Reject(r)
                  /\ obs' = [obs EXCEPT ![r] = o]
             ELSE /\ pc' = [pc EXCEPT ![r] = "load"]
                  /\ obs' = [obs EXCEPT ![r] = [o EXCEPT !.loads = @ + 1]]
                  /\ UNCHANGED <<outcome, lastRunAlerts, lastRunAt, lastDone>>
  /\ UNCHANGED <<envVars, store, now, rules, loopRules, idx, alerts, tx>>

\* getRules settles: on failure the run rejects; otherwise the loop starts
\* and awaits the metric data of the first rule, or ends at once
LoadRulesReturn(r) ==
  /\ UNCHANGED <<healthVars, call, req, cron>>
  /\ pc[r] = "load"
  /\ \E failed \in BOOLEAN :
       /\ failed => pool
       /\ IF loadRulesThrows(failed)
            THEN /\ Reject(r)
                 /\ obs' = [obs EXCEPT ![r] = [@ EXCEPT !.loadFailed = failed]]
                 /\ UNCHANGED <<rules, loopRules, idx, tx>>
            ELSE LET loaded == IF failed THEN rules ELSE getRules
                     o == [obs[r] EXCEPT !.loadFailed = failed]
                 IN  /\ rules' = loaded
                     /\ loopRules' = [loopRules EXCEPT ![r] = loaded]
                     /\ IF Len(loaded) > 0
                          THEN /\ pc' = [pc EXCEPT ![r] = "eval"]
                               /\ idx' = [idx EXCEPT ![r] = 1]
                               /\ obs' = [obs EXCEPT ![r] =
                                            [o EXCEPT !.fetches = @ + 1]]
                               /\ UNCHANGED <<outcome, lastRunAlerts, lastRunAt,
                                              lastDone, tx>>
                          ELSE /\ AfterLoop(r, <<>>, o)
                               /\ UNCHANGED idx
  /\ UNCHANGED <<envVars, store, now, alerts>>

\* the metric data of the rule at idx[r] arrives (or its fetch fails): the
\* rule is evaluated, and the loop moves to the next rule or ends
FetchReturn(r) ==
  /\ UNCHANGED <<healthVars, call, req, cron>>
  /\ pc[r] = "eval"
  /\ \E res \in {evaluateRuleOver[loopRules[r][idx[r]]][source]} :
       LET batch == collect(alerts[r], res)
           next == loopNext(loopRules[r], idx[r], res)
           o == [obs[r] EXCEPT !.threw = IF res[1] = "throw" THEN @ + 1 ELSE @,
                               !.resolved = @ + 1,
                               !.verdicts = Append(@, res[1])]
       IN  /\ alerts' = [alerts EXCEPT ![r] = batch]
           /\ idx' = [idx EXCEPT ![r] = next]
           /\ IF next <= Len(loopRules[r])
                THEN /\ obs' = [obs EXCEPT ![r] = [o EXCEPT !.fetches = @ + 1]]
                     /\ UNCHANGED <<pc, outcome, lastRunAlerts, lastRunAt,
                                    lastDone, tx>>
                ELSE AfterLoop(r, batch, o)
  /\ UNCHANGED <<envVars, store, now, rules, loopRules>>

(***************************************************************************)
(* AlertsRepository.upsertAlerts, called by EvaluateAlertsUseCase.execute  *)
(* (pc = "store") and by RunDailyAlertsUseCase.persistAlerts               *)
(* (pc = "persist")                                                        *)
(***************************************************************************)
\* upsertAlerts of run r returns `result`
UpsertReturns(r, result) ==
  LET o == [obs[r] EXCEPT !.results = Append(@, result)]
  IN  IF pc[r] = "store"
        THEN Persist(r, alerts[r], o)
        ELSE /\ Complete(r, alerts[r])
             /\ obs' = [obs EXCEPT ![r] = o]
             /\ tx' = [tx EXCEPT ![r] = NoTx]

\* upsertAlerts of run r throws: EvaluateAlertsUseCase.execute logs the
\* error and returns its alerts, persistAlerts rethrows it
UpsertThrows(r) ==
  LET o == [obs[r] EXCEPT !.upsertFailed = @ + 1,
                          !.undone = IF tx[r].i > 0 THEN tx[r].i - 1 ELSE 0]
  IN  IF pc[r] = "store"
        THEN Persist(r, alerts[r], o)
        ELSE /\ Reject(r)
             /\ obs' = [obs EXCEPT ![r] = o]
             /\ tx' = [tx EXCEPT ![r] = NoTx]

\* lines 96-113: without a pool or with an empty batch the call returns
\* zero counts; otherwise a client is connected and BEGIN is issued
UpsertConnect(r) ==
  /\ UNCHANGED <<healthVars, call, req, cron>>
  /\ pc[r] \in {"store", "persist"}
  /\ tx[r].phase = "call"
  /\ IF ~pool \/ Len(alerts[r]) = 0
       THEN UpsertReturns(r, [inserted |-> 0, updated |-> 0])
       ELSE /\ tx' = [tx EXCEPT ![r] = [@ EXCEPT !.phase = "rows", !.i = 1]]
            /\ UNCHANGED <<pc, outcome, lastRunAlerts, lastRunAt, lastDone, obs>>
  /\ UNCHANGED <<envVars, store, now, rules, loopRules, idx, alerts>>

\* variant of lockedByOther: statements never wait for one another
neverLocked(r, alert) == FALSE

\* the unique index on (alert_id, ts): a transaction in progress of another
\* call has inserted or updated the row with the key of this alert
lockedByOther(r, alert) ==
  \E q \in Runs \ {r} :
    \E row \in tx[q].add \cup tx[q].del : Key(row) = AlertKey(alert)

\* lines 118-139: the statement for the alert at position i succeeds; it
\* waits while another transaction in progress has written the same key
UpsertRow(r) ==
  /\ UNCHANGED <<healthVars, call, req, cron>>
  /\ pc[r] \in {"store", "persist"}
  /\ tx[r].phase = "rows"
  /\ tx[r].i <= Len(alerts[r])
  /\ LET alert == alerts[r][tx[r].i]
         view == View(r)
         res == insertOnConflict(view, alert, now)
         removed == view \ res.table
         added == res.table \ view
     IN  /\ ~lockedByOther(r, alert)
         /\ tx' = [tx EXCEPT ![r] =
                     [@ EXCEPT !.i = @ + 1,
                               !.del = @ \cup (removed \cap store),
                               !.add = (@ \ removed) \cup added,
                               !.inserted = IF res.inserted THEN @ + 1 ELSE @,
                               !.updated = IF res.inserted THEN @ ELSE @ + 1]]
  /\ UNCHANGED <<envVars, store, now, rules, lastRunAlerts, lastRunAt, pc,
                 outcome, loopRules, idx, alerts, obs, lastDone>>

\* lines 141-150: COMMIT succeeds and the counts are returned
UpsertCommit(r) ==
  /\ UNCHANGED <<healthVars, call, req, cron>>
  /\ pc[r] \in {"store", "persist"}
  /\ tx[r].phase = "rows"
  /\ tx[r].i > Len(alerts[r])
  /\ store' = View(r)
  /\ UpsertReturns(r, [inserted |-> tx[r].inserted, updated |-> tx[r].updated])
  /\ UNCHANGED <<envVars, now, rules, loopRules, idx, alerts>>

\* variant of afterRollback: the statements that succeeded stay applied
afterFailureKeepsRows(r) == View(r)

\* the alerts table after ROLLBACK of the transaction of run r
afterRollback(r) == store

\* connect, a statement or COMMIT fails: lines 151-161 roll the transaction
\* back and rethrow
UpsertFail(r) ==
  /\ UNCHANGED <<healthVars, call, req, cron>>
  /\ pc[r] \in {"store", "persist"}
  /\ tx[r].phase \in {"call", "rows"}
  /\ pool /\ Len(alerts[r]) > 0
  /\ store' = afterRollback(r)
  /\ UpsertThrows(r)
  /\ UNCHANGED <<envVars, now, rules, loopRules, idx, alerts>>

(***************************************************************************)
(* The environment changes between runs: rules are reconfigured, metric   *)
(* points arrive or are corrected, the metrics source goes down or up     *)
(***************************************************************************)
EnvChange ==
  /\ UNCHANGED <<healthVars, call, req, cron>>
  /\ \A r \in Runs : pc[r] = "idle"
  /\ \E rs \in RuleSets, sn \in Snapshots :
       /\ <<rs, sn>> # <<ruleStore, source>>
       /\ ruleStore' = rs
       /\ source' = sn
  /\ obs' = [r \in Runs |-> [obs[r] EXCEPT !.stable = FALSE]]
  /\ lastDone' = FALSE
  /\ UNCHANGED <<pool, alerts_emitted, store, now, rules, lastRunAlerts,
                 lastRunAt, pc, outcome, loopRules, idx, alerts, tx>>

(***************************************************************************)
(* interfaces/rest/health: GET /health                                     *)
(***************************************************************************)
\* getLastRunInfo of a RunDailyAlertsUseCase with the fields `run`
lastRunInfoOf(run) ==
  [lastRunAt |-> run.lastRunAt, alertsCount |-> Len(run.lastRunAlerts)]

\* HealthService.checkMetricsApi: an error of getHealth is not rethrown
checkMetricsApi(probe) ==
  IF probe = "fail"
    THEN [reachable |-> FALSE, status |-> ""]
    ELSE [reachable |-> TRUE, status |-> probe]

\* HealthService.getHealthStatus over its own runDailyAlertsUseCase
getHealthStatus(probe, run) ==
  [ ok                 |-> checkMetricsApi(probe).reachable,
    metricsApi         |-> checkMetricsApi(probe),
    lastRunAt          |-> lastRunInfoOf(run).lastRunAt,
    alertsCountLastRun |-> lastRunInfoOf(run).alertsCount ]

\* GET /health is answered by the HealthService of health.routes
GetHealth ==
  /\ \E probe \in HealthOutcomes :
       health' = getHealthStatus(probe, routeRun)
  /\ healthObs' = [ served       |-> TRUE,
                    afterSuccess |-> outcome[1] = "resolved",
                    info         |-> getLastRunInfo ]
  /\ UNCHANGED <<envVars, store, now, rules, lastRunAlerts, lastRunAt, pc,
                 outcome, loopRules, idx, alerts, tx, obs, lastDone, routeRun,
                 call, req, cron>>

(***************************************************************************)
(* MetricsClient.calculateBackoffDelay                                     *)
(*                                                                         *)
(* A JavaScript number is finite, Infinity or NaN; a finite number is kept *)
(* in halves of a millisecond, so that the jitter has a fraction for       *)
(* Math.floor to cut.                                                      *)
(***************************************************************************)
\* largest attempt whose power of two is computed exactly
MaxAttempt == 4

Finite(halves) == [kind |-> "finite", halves |-> halves]

Infinity == [kind |-> "Infinity", halves |-> 0]

NotANumber == [kind |-> "NaN", halves |-> 0]

\* a whole number of milliseconds
Ms(n) == Finite(n + n)

\* Math.pow(2, attempt), a factor: Infinity from attempt 1024 on
pow2(attempt) ==
  IF attempt >= 1024 THEN Infinity ELSE Finite(2 ^ attempt)

\* base * factor for a finite base >= 0: 0 * Infinity is NaN
times(base, factor) ==
  IF factor.kind = "Infinity"
    THEN IF base.halves = 0 THEN NotANumber ELSE Infinity
    ELSE Finite(base.halves * factor.halves)

\* x + jitter for a finite jitter
plus(x, jitter) ==
  IF x.kind = "finite" THEN Finite(x.halves + jitter.halves) ELSE x

\* Math.min(x, y) for a finite y: NaN when x is NaN
mathMin(x, y) ==
  CASE x.kind = "NaN" -> NotANumber
    [] x.kind = "Infinity" -> y
    [] OTHER -> IF x.halves < y.halves THEN x ELSE y

\* Math.floor(x): the whole milliseconds of a finite number >= 0
mathFloor(x) ==
  IF x.kind = "finite" THEN Ms(x.halves \div 2) ELSE x

\* calculateBackoffDelay(attempt) on a client with backoffBaseMs and
\* backoffMaxMs, where Math.random() * 1000 is `jitter`
calculateBackoffDelay(backoffBaseMs, backoffMaxMs, attempt, jitter) ==
  mathFloor(mathMin(plus(times(backoffBaseMs, pow2(attempt)), jitter),
                    backoffMaxMs))

\* HTTP_BACKOFF_BASE_MS: 250 by default
BackoffBases == {Ms(0), Ms(1), Ms(250)}

\* HTTP_BACKOFF_MAX_MS: 4000 by default
BackoffMaxes == {Ms(0), Ms(1), Ms(4000)}

\* the attempts: the first ones and the first whose power of two is Infinity
Attempts == 0..MaxAttempt \cup {1024}

\* Math.random() * 1000: 0, 0.5, 1, 499.5, 999 and 999.5
Jitters == {Finite(h) : h \in {0, 1, 2, 999, 1998, 1999}}

(***************************************************************************)
(* infrastructure/sched/cron.ts: CronScheduler                             *)
(***************************************************************************)
\* the tasks that cron.schedule may create: the task of the start() of
\* startServer and the task of one more start()
Tasks == {1, 2}

\* the scheduler touches no state of the runs
cronFrame ==
  UNCHANGED <<envVars, store, now, rules, lastRunAlerts, lastRunAt, pc, outcome,
              loopRules, idx, alerts, tx, obs, lastDone, healthVars, call, req>>

\* lines 11-68: start() returns when the scheduler is disabled, otherwise
\* this.task = cron.schedule(...) with scheduled: true
Start ==
  /\ cron.created + 1 \in Tasks
  /\ cron' = IF ~cron.enabled
               THEN cron
               ELSE [cron EXCEPT !.task = cron.created + 1,
                                 !.scheduled = @ \cup {cron.created + 1},
                                 !.created = @ + 1,
                                 !.stopped = FALSE]
  /\ cronFrame

\* lines 70-80: stop() stops this.task and sets it to null
Stop ==
  /\ cron' = IF cron.task # 0
               THEN [cron EXCEPT !.scheduled = @ \ {cron.task},
                                 !.task = 0,
                                 !.stopped = TRUE]
               ELSE [cron EXCEPT !.stopped = TRUE]
  /\ cronFrame

\* lines 82-84
isRunning == cron.task # 0

\* the run slot that the next invocation of runDaily takes
FreeRun == CHOOSE r \in Runs :
             /\ pc[r] = "idle" /\ cron.cb[r] # "awaiting"
             /\ \A q \in Runs : (pc[q] = "idle" /\ cron.cb[q] # "awaiting") => r <= q

\* lines 34-44: node-cron fires the scheduled task t at 08:25; its callback
\* calls runDaily and awaits it
Tick(t) ==
  /\ t \in cron.scheduled
  /\ \E r \in Runs : pc[r] = "idle" /\ cron.cb[r] # "awaiting"
  /\ Invoke(FreeRun)
  /\ cron' = [cron EXCEPT !.cb[FreeRun] = "awaiting"]
  /\ UNCHANGED <<healthVars, call, req>>

\* variant of afterRunFailed: the callback has no catch, the rejection is
\* unhandled and ends the process with its tasks
afterRunFailedUncaught(scheduled) == {}

\* lines 52-61: the catch of the callback logs the error; the tasks of
\* node-cron are as they were
afterRunFailed(scheduled) == scheduled

\* lines 44-61: runDaily of run r has settled and the callback resumes
Callback(r) ==
  /\ cron.cb[r] = "awaiting"
  /\ pc[r] = "idle"
  /\ cron' = IF outcome[r] = "rejected"
               THEN [cron EXCEPT !.cb[r] = "failed",
                                 !.caught = TRUE,
                                 !.scheduled = afterRunFailed(@)]
               ELSE [cron EXCEPT !.cb[r] = "completed"]
  /\ cronFrame

\* the service has started with no rule or with one rule, whose metric has
\* the single point 1, and with a database
InitCron ==
  /\ Constructed
  /\ ruleStore \in {<<>>, <<rLow>>}
  /\ source \in {sn \in Snapshots : sn["m1"].points = <<Point(1, <<"1">>)>>}
  /\ pool = TRUE
  /\ alerts_emitted = {}
  /\ \E enabled \in BOOLEAN : cron = CronScheduler(enabled)

(***************************************************************************)
(* infrastructure/db/alertsRepo.ts: getAlerts, the read path of GET /alerts *)
(***************************************************************************)
\* a filter that is not given (undefined or the empty string)
NoFilter == 0

\* a query of GET /alerts; limit is 50 by default
Query(from, to, level, limit) ==
  [from |-> from, to |-> to, level |-> level, limit |-> limit]

\* the queries made: every alert, the latest red alert since day 2, the
\* alerts up to day 1
Queries ==
  { Query(NoFilter, NoFilter, "", 50),
    Query(2, NoFilter, "red", 1),
    Query(NoFilter, 1, "", 50) }

\* the WHERE clause built from the filters that are given
matches(row, from, to, level) ==
  /\ from # NoFilter => row.ts >= from
  /\ to # NoFilter => row.ts <= to
  /\ level # "" => row.level = level

\* ORDER BY ts DESC, created_at DESC: the orders the rows may come in
ordered(rows) ==
  { seq \in [1..Cardinality(rows) -> rows] :
      /\ \A i, j \in 1..Cardinality(rows) : i # j => seq[i] # seq[j]
      /\ \A i, j \in 1..Cardinality(rows) :
           i < j => \/ seq[i].ts > seq[j].ts
                    \/ seq[i].ts = seq[j].ts /\ seq[i].created_at >= seq[j].created_at }

\* result.rows.map: the alert of a row
alertOfRow(row) ==
  [ alertId |-> row.alert_id, ts |-> row.ts, level |-> row.level,
    message |-> row.message, payload |-> row.payload ]

\* the results getAlerts(from, to, level, limit) may return: the first
\* `limit` rows of alerts_emitted that match, no row without a pool
getAlerts(from, to, level, limit) ==
  IF ~pool THEN {<<>>}
  ELSE LET rows == {row \in alerts_emitted : matches(row, from, to, level)}
           n == IF Cardinality(rows) < limit THEN Cardinality(rows) ELSE limit
       IN  {[i \in 1..n |-> alertOfRow(seq[i])] : seq \in ordered(rows)}

\* a row of alerts_emitted that this service did not write
Emitted(alertId, ts, level, t) ==
  [ alert_id |-> alertId, ts |-> ts, level |-> level, message |-> "emitted",
    payload |-> [value |-> 0], created_at |-> t ]

\* alerts_emitted as the migration creates it, or holding two rows
EmittedTables == {{}, {Emitted("a0", 2, "red", 1), Emitted("a0", 1, "amber", 0)}}

InitQuery ==
  Started /\ alerts_emitted \in EmittedTables /\ cron = CronScheduler(TRUE)

\* GET /alerts is answered by getAlerts; `persisted` keeps the rows of
\* alerts.alerts at the time of the query
GetAlerts ==
  /\ \E q \in Queries :
       \E result \in getAlerts(q.from, q.to, q.level, q.limit) :
         call' = [ kind |-> "getAlerts", from |-> q.from, to |-> q.to,
                   level |-> q.level, limit |-> q.limit, result |-> result,
                   persisted |-> store ]
  /\ UNCHANGED <<envVars, store, now, rules, lastRunAlerts, lastRunAt, pc,
                 outcome, loopRules, idx, alerts, tx, obs, lastDone, healthVars,
                 req, cron>>

(***************************************************************************)
(* Calls of RuleEvaluator.evaluate                                         *)
(***************************************************************************)
\* the numbers of conditions are in -MaxNum..MaxNum, values reach one further
MaxNum == 2

\* longest trend series evaluated against every window
MaxSeries == 5

\* longest trend series combined with every condition and value
MaxShort == 2

EvalNums == (0 - MaxNum)..MaxNum

EvalValues == (0 - MaxNum - 1)..(MaxNum + 1)

\* the condition text `value OP t`
Simple(op, t) == <<"value", " ">> \o op \o <<" ">> \o toStr(t)

\* the condition text `L < value AND value <= U`
Band(lo, hi) ==
  toStr(lo) \o <<" ", "<", " ", "value", " ", "AND", " ", "value", " ", "<", "=", " ">>
    \o toStr(hi)

Operators == {ALLOWED_OPERATORS[k] : k \in 1..Len(ALLOWED_OPERATORS)}

\* what a condition was written to mean
SimpleForm(op, t) == [form |-> "simple", op |-> op, a |-> t, b |-> t]
BandForm(lo, hi) == [form |-> "band", op |-> <<>>, a |-> lo, b |-> hi]

TrendRules == {"non_decreasing", "at_least_4_of_5_increasing", "other"}

\* the last value of a series that is a number, 0 when there is none
RECURSIVE LastNum(_)
LastNum(s) ==
  IF s = <<>> THEN 0
  ELSE IF s[Len(s)].nan THEN LastNum(SubSeq(s, 1, Len(s) - 1))
  ELSE s[Len(s)].num

\* the continuations of a series by one point: not a number (an unparsable
\* point value), or the latest number moved by -1, 0 or 1
Extended(s, vals) ==
  {Append(s, x) : x \in vals \cup {Num(LastNum(s) + d) : d \in {0 - 1, 0, 1}}}

\* the series of n points that start at 0 or at an unparsable point
RECURSIVE SeriesOfLen(_)
SeriesOfLen(n) ==
  IF n = 0 THEN {<<>>}
  ELSE IF n = 1 THEN {<<Num(0)>>, <<NaN>>}
  ELSE UNION {Extended(s, {NaN}) : s \in SeriesOfLen(n - 1)}

SeriesUpTo(n) == UNION {SeriesOfLen(k) : k \in 0..n}

\* the series of n numbers that start at 0
RECURSIVE NumbersOfLen(_)
NumbersOfLen(n) ==
  IF n = 0 THEN {<<>>}
  ELSE IF n = 1 THEN {<<Num(0)>>}
  ELSE UNION {Extended(s, {}) : s \in NumbersOfLen(n - 1)}

NumbersUpTo(n) == UNION {NumbersOfLen(k) : k \in 0..n}

EvalMeta == [base_ts |-> 1, oficial_fx_source |-> ""]

Call(form, type, condition, trend, value, trendValues) ==
  [ kind        |-> "call",
    form        |-> form,
    rule        |-> Rule("a1", "m1", "red", type, condition, "msg", "", trend),
    value       |-> value,
    trendValues |-> trendValues,
    done        |-> FALSE,
    result      |-> Thrown ]

TrendConfigs(windows, trendRules) ==
  {[windowPoints |-> w, rule |-> tr] : w \in windows, tr \in trendRules}

\* c is a call with a threshold rule
ThresholdCall(c) ==
  \E op \in Operators, t \in EvalNums, v \in EvalValues :
    c = Call(SimpleForm(op, t), "threshold", Simple(op, t), NoTrend, v, <<>>)

\* c is a call with a band rule
BandCall(c) ==
  \E lo \in EvalNums, hi \in EvalNums, v \in EvalValues :
    c = Call(BandForm(lo, hi), "band", Band(lo, hi), NoTrend, v, <<>>)

\* c is a call with a threshold_with_trend rule over any condition and value
\* and a short series
TrendCall(c) ==
  \E tc \in TrendConfigs({0, MaxShort}, TrendRules \ {"other"}),
     v \in EvalValues, tv \in NumbersUpTo(MaxShort) :
    \/ \E op \in Operators, t \in EvalNums :
         c = Call(SimpleForm(op, t), "threshold_with_trend", Simple(op, t),
                  tc, v, tv)
    \/ \E lo \in EvalNums, hi \in EvalNums :
         c = Call(BandForm(lo, hi), "threshold_with_trend", Band(lo, hi),
                  tc, v, tv)

\* c is a call with a threshold_with_trend rule whose threshold `value >= 0`
\* passes for the value 1, over any series and window
SeriesCall(c) ==
  \E tc \in TrendConfigs(0..(MaxSeries + 1), TrendRules), tv \in SeriesUpTo(MaxSeries) :
    c = Call(SimpleForm(<<">", "=">>, 0), "threshold_with_trend",
             Simple(<<">", "=">>, 0), tc, 1, tv)

\* no run is in progress and GET /health has not been requested
Idle ==
  /\ routeRun = NewRunDaily
  /\ health = NoHealth
  /\ healthObs = NoHealthObs
  /\ ruleStore = <<>>
  /\ source = CHOOSE sn \in Snapshots : TRUE
  /\ pool = FALSE
  /\ cron = CronScheduler(TRUE)
  /\ alerts_emitted = {}
  /\ store = {}
  /\ now = 0
  /\ rules = <<>>
  /\ lastRunAlerts = <<>>
  /\ lastRunAt = 0
  /\ pc = [r \in Runs |-> "idle"]
  /\ outcome = [r \in Runs |-> "none"]
  /\ loopRules = [r \in Runs |-> <<>>]
  /\ idx = [r \in Runs |-> 0]
  /\ alerts = [r \in Runs |-> <<>>]
  /\ tx = [r \in Runs |-> NoTx]
  /\ obs = [r \in Runs |-> NewObs]
  /\ lastDone = FALSE

\* a caller is about to call RuleEvaluator.evaluate; no run is in progress
InitEval ==
  /\ \/ ThresholdCall(call)
     \/ BandCall(call)
     \/ TrendCall(call)
     \/ SeriesCall(call)
  /\ req = NoRequest
  /\ Idle

\* RuleEvaluator.evaluate(rule, value, trendValues, metadata) returns or throws
Evaluate ==
  /\ call.kind = "call"
  /\ ~call.done
  /\ call' = [call EXCEPT
                !.done = TRUE,
                !.result = evaluate(call.rule, Num(call.value), call.trendValues,
                                    EvalMeta)]
  /\ UNCHANGED <<envVars, store, now, rules, lastRunAlerts, lastRunAt, pc,
                 outcome, loopRules, idx, alerts, tx, obs, lastDone, healthVars,
                 req, cron>>

(***************************************************************************)
(* Calls of EvaluateAlertsUseCase.fetchMetricData                          *)
(***************************************************************************)
\* longest series answered by the metrics source
MaxPoints == 2

\* point values: numbers and a text that is not a number
PointValues == {<<"1">>, <<"2">>, <<"x">>}

\* the series of n points, at the times 1..n
PointSeries(n) ==
  UNION {{[i \in 1..k |-> Point(i, f[i])] : f \in [1..k -> PointValues]} : k \in 0..n}

\* an item of the latest-values response
Item(metricId, ts, value) ==
  [metric_id |-> metricId, ts |-> ts, value |-> value, oficial_fx_source |-> ""]

\* latest-values responses: no item, the item of m1, the item of another
\* metric, or both; the values differ from every point value
ItemLists ==
  { <<>>,
    <<Item("m1", 7, <<"3">>)>>,
    <<Item("m2", 8, <<"4">>)>>,
    <<Item("m2", 8, <<"4">>), Item("m1", 7, <<"3">>)>>,
    <<Item("m1", 7, <<"3">>), Item("m1", 9, <<"5">>)>> }

\* rules over m1 of every type, with and without window, with and without
\* trend
FetchRules ==
  { Rule("a1", "m1", "red", type, CondLe2, "msg", window, trend) :
      type \in {"threshold", "band", "threshold_with_trend"},
      window \in {"", "7d"},
      trend \in {NoTrend, [windowPoints |-> 2, rule |-> "non_decreasing"]} }

FetchSources ==
  { [m \in MetricIds |->
       IF m = "m1" THEN MetricWithSummary(up, points, items, missing)
                   ELSE Metric(TRUE, <<>>)] :
      up \in BOOLEAN, points \in PointSeries(MaxPoints), items \in ItemLists,
      missing \in {{}, {"m1"}} }

\* evaluateRule is about to call fetchMetricData(rule); no run is modelled
InitFetch ==
  /\ \E rule \in FetchRules, src \in FetchSources :
       call = [kind |-> "fetch", rule |-> rule, src |-> src, done |-> FALSE,
               result |-> NoData]
  /\ req = NoRequest
  /\ Idle

\* fetchMetricData(rule) returns metric data or null, or throws
Fetch ==
  /\ call.kind = "fetch"
  /\ ~call.done
  /\ call' = [call EXCEPT !.done = TRUE,
                          !.result = fetchMetricData(call.rule, call.src)]
  /\ UNCHANGED <<envVars, store, now, rules, lastRunAlerts, lastRunAt, pc,
                 outcome, loopRules, idx, alerts, tx, obs, lastDone, healthVars,
                 req, cron>>

(***************************************************************************)
(* Two upsertAlerts calls in progress on one alerts table                  *)
(***************************************************************************)
\* the alert that call r submits for an alert id: the calls differ in
\* level, message and payload
Submitted(r, alertId) ==
  [ alertId |-> alertId, ts |-> 1,
    level   |-> IF r = 1 THEN "red" ELSE "amber",
    message |-> IF r = 1 THEN "one" ELSE "two",
    payload |-> [value |-> r] ]

\* the batches of a call: one or two alerts, in either order, or one alert
\* twice
Batches(r) ==
  { <<Submitted(r, "a1")>>, <<Submitted(r, "a2")>>,
    <<Submitted(r, "a1"), Submitted(r, "a2")>>,
    <<Submitted(r, "a2"), Submitted(r, "a1")>>,
    <<Submitted(r, "a1"), Submitted(r, "a1")>> }

\* a row left by an earlier run
OldRow ==
  [ alert_id |-> "a1", ts |-> 1, level |-> "green", message |-> "zero",
    payload |-> [value |-> 0], created_at |-> 0 ]

\* both runs have called upsertAlerts from persistAlerts, the database is
\* enabled
InitUpsert ==
  /\ call = NoCall
  /\ req = NoRequest
  /\ routeRun = NewRunDaily
  /\ health = NoHealth
  /\ healthObs = NoHealthObs
  /\ ruleStore = <<>>
  /\ source = CHOOSE sn \in Snapshots : TRUE
  /\ pool = TRUE
  /\ cron = CronScheduler(TRUE)
  /\ alerts_emitted = {}
  /\ store \in {{}, {OldRow}}
  /\ now = 1
  /\ rules = <<>>
  /\ lastRunAlerts = <<>>
  /\ lastRunAt = 0
  /\ pc = [r \in Runs |-> "persist"]
  /\ outcome = [r \in Runs |-> "pending"]
  /\ loopRules = [r \in Runs |-> <<>>]
  /\ idx = [r \in Runs |-> 0]
  /\ \E b1 \in Batches(1), b2 \in Batches(2) : alerts = <<b1, b2>>
  /\ tx = [r \in Runs |-> TxCall]
  /\ obs = [r \in Runs |-> [Called(NewObs) EXCEPT !.store0 = store]]
  /\ lastDone = FALSE

NextUpsert ==
  \E r \in Runs :
    UpsertConnect(r) \/ UpsertRow(r) \/ UpsertCommit(r) \/ UpsertFail(r)

(***************************************************************************)
(* Calls of MetricsClient.calculateBackoffDelay                            *)
(***************************************************************************)
InitBackoff ==
  /\ \E base \in BackoffBases, max \in BackoffMaxes, attempt \in Attempts,
        jitter \in Jitters :
       call = [ kind |-> "backoff", backoffBaseMs |-> base, backoffMaxMs |-> max,
                attempt |-> attempt, jitter |-> jitter, done |-> FALSE,
                result |-> NotANumber ]
  /\ req = NoRequest
  /\ Idle

\* calculateBackoffDelay(attempt) returns
Backoff ==
  /\ call.kind = "backoff"
  /\ ~call.done
  /\ call' = [call EXCEPT
                !.done = TRUE,
                !.result = calculateBackoffDelay(call.backoffBaseMs, call.backoffMaxMs,
                                                 call.attempt, call.jitter)]
  /\ UNCHANGED <<envVars, store, now, rules, lastRunAlerts, lastRunAt, pc,
                 outcome, loopRules, idx, alerts, tx, obs, lastDone, healthVars,
                 req, cron>>

(***************************************************************************)
(* MetricsClient.makeRequest                                               *)
(***************************************************************************)
\* largest HTTP_RETRIES of a client
MaxRetries == 2

\* HTTP_RETRIES, the number of retries after the first attempt
Retries == 0..MaxRetries

\* the loop of makeRequest is cut off after this many requests
MaxRequests == MaxRetries + 2

\* HTTP statuses that axios rejects with
Statuses == {304, 400, 404, 408, 429, 499, 500, 503}

\* what axiosInstance.request rejects with at an attempt: an AxiosError with
\* the status of the response, an AxiosError without response (status 0:
\* network error, timeout), or an error that is not an AxiosError
Failure(attempt, axios, status) ==
  [attempt |-> attempt, axios |-> axios, status |-> status]

Failures(attempt) ==
  {Failure(attempt, TRUE, st) : st \in Statuses \cup {0}}
    \cup {Failure(attempt, FALSE, 0)}

\* let lastError: Error | null = null
Null == [attempt |-> 0 - 1, axios |-> FALSE, status |-> 0]

\* variant of isRetryableError: every error is retried
isRetryableAlways(error) == TRUE

isRetryableError(error) ==
  IF error.axios
    THEN error.status = 0 \/ error.status >= 500
           \/ error.status = 408 \/ error.status = 429
    ELSE TRUE

\* variant of nextAttempt: the loop does not count its attempts
sameAttempt(attempt) == attempt

\* attempt++
nextAttempt(attempt) == attempt + 1

\* makeRequest has been called on a client with `retries` and is at the
\* loop condition of its first iteration
NewRequest(retries) ==
  [ kind      |-> "request",
    retries   |-> retries,
    attempt   |-> 0,
    lastError |-> Null,
    at        |-> "loop",        \* "loop", "await", "sleep", "returned", "thrown"
    settled   |-> Null,          \* the response returned or the error thrown
    trace     |-> <<>> ]         \* history: requests, failures, sleeps

\* a caller is about to call makeRequest; no run is in progress
InitRequest ==
  /\ \E retries \in Retries : req = NewRequest(retries)
  /\ call = NoCall
  /\ Idle

\* makeRequest touches no state but its locals
runVars == <<envVars, store, now, rules, lastRunAlerts, lastRunAt, pc, outcome,
             loopRules, idx, alerts, tx, obs, lastDone, healthVars, call, cron>>

\* the loop condition attempt <= this.retries: the next request is issued,
\* or the loop ends and lastError is thrown
Request ==
  /\ UNCHANGED runVars
  /\ req.kind = "request"
  /\ req.at = "loop"
  /\ Cardinality({i \in 1..Len(req.trace) : req.trace[i].ev = "request"})
       < MaxRequests
  /\ IF req.attempt <= req.retries
       THEN req' = [req EXCEPT !.at = "await",
                               !.trace = Append(@, [ev |-> "request",
                                                    attempt |-> req.attempt])]
       ELSE req' = [req EXCEPT !.at = "thrown", !.settled = req.lastError]

\* the request of this attempt settles: a response is returned; a failure
\* at the last attempt leaves the loop and is thrown; a failure that is not
\* retryable is thrown; any other failure is followed by the backoff sleep
Respond ==
  /\ UNCHANGED runVars
  /\ req.kind = "request"
  /\ req.at = "await"
  /\ \/ req' = [req EXCEPT
                  !.at = "returned",
                  !.settled = [ev |-> "response", attempt |-> req.attempt],
                  !.trace = Append(@, [ev |-> "response",
                                       attempt |-> req.attempt])]
     \/ \E error \in Failures(req.attempt) :
          LET failed == [req EXCEPT !.lastError = error,
                                    !.trace = Append(@, [ev |-> "failure",
                                                         error |-> error])]
          IN  IF req.attempt = req.retries
                THEN req' = [failed EXCEPT !.at = "thrown", !.settled = error]
              ELSE IF ~isRetryableError(error)
                THEN req' = [failed EXCEPT !.at = "thrown", !.settled = error]
              ELSE req' = [failed EXCEPT
                             !.at = "sleep",
                             !.trace = Append(@, [ev |-> "sleep",
                                                  attempt |-> req.attempt])]

\* the backoff sleep ends and the loop goes to its next iteration
Wake ==
  /\ UNCHANGED runVars
  /\ req.kind = "request"
  /\ req.at = "sleep"
  /\ req' = [req EXCEPT !.at = "loop", !.attempt = nextAttempt(@)]

NextRequest == Request \/ Respond \/ Wake

(***************************************************************************)
(* Specifications                                                          *)
(***************************************************************************)
Step(r) ==
  \/ HealthReturn(r)
  \/ LoadRulesReturn(r)
  \/ FetchReturn(r)
  \/ UpsertConnect(r)
  \/ UpsertRow(r)
  \/ UpsertCommit(r)
  \/ UpsertFail(r)

\* runs follow one another: each execute() settles before the next starts
Next ==
  \/ Execute(1)
  \/ Step(1)
  \/ EnvChange

Spec == Init /\ [][Next]_vars

\* every external call of a run in flight eventually returns or fails: the
\* HTTP client has a timeout and a retry ceiling, the database client
\* answers or errors
SpecLive == Init /\ [][Next]_vars /\ WF_vars(Step(1))

\* the server process: the scheduled runs and the requests to GET /health,
\* which read but never change the state of the runs
NextServer == Next \/ GetHealth

SpecServer == Init /\ [][NextServer]_vars

\* the scheduler is started and stopped, its tasks fire and their runs
\* proceed
NextCron ==
  \/ Start
  \/ Stop
  \/ \E t \in Tasks : Tick(t)
  \/ \E r \in Runs : Step(r) \/ Callback(r)

SpecCron == InitCron /\ [][NextCron]_vars

\* the runs and the queries of GET /alerts
NextQuery == Next \/ GetAlerts

SpecQuery == InitQuery /\ [][NextQuery]_vars

\* single calls of calculateBackoffDelay
SpecBackoff == InitBackoff /\ [][Backoff]_vars

\* single calls of RuleEvaluator.evaluate
SpecEval == InitEval /\ [][Evaluate]_vars

\* execute() may be invoked while an earlier invocation has not settled
NextOverlap ==
  \E r \in Runs : Execute(r) \/ Step(r)

SpecOverlap == Init /\ [][NextOverlap]_vars

\* single calls of fetchMetricData
SpecFetch == InitFetch /\ [][Fetch]_vars

\* two upsertAlerts calls on one table, their statements interleaved
SpecUpsert == InitUpsert /\ [][NextUpsert]_vars

\* single calls of MetricsClient.makeRequest; every await of the call
\* settles (axios has a timeout, the sleep is a timer)
SpecRequest == InitRequest /\ [][NextRequest]_vars /\ WF_vars(NextRequest)

(***************************************************************************)
(* Properties                                                              *)
(***************************************************************************)
\* the for loop of run r has ended (the rules were loaded and every rule
\* has been taken)
LoopEnded(r) ==
  /\ obs[r].loads > 0
  /\ ~obs[r].loadFailed
  /\ pc[r] \notin {"load", "eval"}

Keys(table) == {Key(row) : row \in table}

\* a row without its audit timestamp created_at
Audited(row) ==
  [ alert_id |-> row.alert_id, ts |-> row.ts, level |-> row.level,
    message |-> row.message, payload |-> row.payload ]

StripAudit(table) == {Audited(row) : row \in table}

\* the last alert of a batch with the key of the alert at position k
LastWithKey(batch, k) ==
  batch[CHOOSE j \in k..Len(batch) :
          /\ AlertKey(batch[j]) = AlertKey(batch[k])
          /\ \A m \in (j + 1)..Len(batch) : AlertKey(batch[m]) # AlertKey(batch[k])]

UniqueKeys == \A a, b \in store : Key(a) = Key(b) => a = b

\* a step that changes the alerts table is the commit of the batch of one
\* run: each key of the batch then has exactly one row, carrying the level,
\* message and payload submitted last for it; keys that existed get no
\* second row; the other rows are untouched
UpsertReplaces ==
  store' # store =>
    \E r \in Runs :
      /\ pc[r] \in {"store", "persist"}
      /\ Keys(store') = Keys(store) \cup {AlertKey(alerts[r][k]) : k \in 1..Len(alerts[r])}
      /\ Cardinality(store') = Cardinality(Keys(store'))
      /\ \A k \in 1..Len(alerts[r]) :
           \E row \in store' :
             /\ Key(row) = AlertKey(alerts[r][k])
             /\ row.level = LastWithKey(alerts[r], k).level
             /\ row.message = LastWithKey(alerts[r], k).message
             /\ row.payload = LastWithKey(alerts[r], k).payload
      /\ \A row \in store :
           (\A k \in 1..Len(alerts[r]) : Key(row) # AlertKey(alerts[r][k]))
             => row \in store'

\* C1: after any sequence of upsertAlerts batches the alerts table holds at
\* most one row per (alertId, ts); upserting an alert whose key exists
\* replaces the level, message and payload of that row and adds no row.
C1_DedupUpsert == []UniqueKeys /\ [][UpsertReplaces]_vars

\* C1 witness: a run has replaced the level of a row that existed when the
\* run started, and the table has as many rows as before
C1_Witness ==
  \E r \in Runs :
    /\ obs[r].stable
    /\ Cardinality(store) = Cardinality(obs[r].store0)
    /\ \E row \in store, old \in obs[r].store0 :
         Key(row) = Key(old) /\ row.level # old.level /\ row.message # old.message

\* C2: when execute() runs twice against an unchanged rule set and metric
\* snapshot, every upsert of the second run reports inserted = 0 and
\* updated = the number of alerts of the first run, and the rows after the
\* second run equal the rows after the first except for created_at.
C2_SecondRunIdempotent ==
  \A r \in Runs :
    (outcome[r] = "resolved" /\ obs[r].first /\ obs[r].stable) =>
      /\ \A k \in 1..Len(obs[r].results) :
           obs[r].results[k] =
             [inserted |-> 0, updated |-> Len(obs[r].alerts0)]
      /\ StripAudit(store) = StripAudit(obs[r].store0)

\* C2 witness: a second run over the unchanged environment has resolved
\* after upserting, the first run having produced alerts
C2_Witness ==
  \E r \in Runs :
    /\ outcome[r] = "resolved" /\ obs[r].first /\ obs[r].stable
    /\ Len(obs[r].alerts0) > 0
    /\ Len(obs[r].results) = 2
    /\ store # obs[r].store0

\* C3: if the health probe fails, execute() rejects, and the run loads no
\* rules, fetches and evaluates no rule and never calls upsertAlerts.
C3_HealthGate ==
  \A r \in Runs :
    obs[r].probe = "fail" =>
      /\ outcome[r] = "rejected"
      /\ obs[r].loads = 0 /\ obs[r].fetches = 0 /\ obs[r].resolved = 0
      /\ obs[r].upsertCalls = 0

\* C3 witness: a run was rejected at the health probe while the rule table
\* held rules
C3_Witness ==
  \E r \in Runs :
    obs[r].probe = "fail" /\ outcome[r] = "rejected" /\ pool /\ ruleStore # <<>>

\* the alerts of the rules of a list that evaluate to triggered, in order
RECURSIVE TriggeredAlerts(_, _)
TriggeredAlerts(ruleList, src) ==
  IF ruleList = <<>> THEN <<>>
  ELSE collect(<<>>, evaluateRule(Head(ruleList), src))
         \o TriggeredAlerts(Tail(ruleList), src)

\* C4: when fetching or evaluating a rule throws, every other rule of the
\* run is still evaluated, the batch holds exactly the alerts of the rules
\* that evaluated to triggered, and the error does not make the run fail
\* (a run whose loop has ended rejects only when an upsert failed).
C4_RuleIsolation ==
  \A r \in Runs :
    (LoopEnded(r) /\ obs[r].stable) =>
      /\ obs[r].fetches = Len(loopRules[r])
      /\ obs[r].resolved = Len(loopRules[r])
      /\ alerts[r] = TriggeredAlerts(loopRules[r], source)
      /\ outcome[r] = "rejected" => obs[r].upsertFailed > 0

\* C4 witness: a run in which a rule threw has resolved with the alerts of
\* two later rules
C4_Witness ==
  \E r \in Runs :
    /\ LoopEnded(r) /\ obs[r].stable
    /\ obs[r].threw > 0
    /\ Len(alerts[r]) = 2
    /\ outcome[r] = "resolved"

\* C5: if an upsert attempted during a run fails, execute() rejects: no run
\* in which an upsertAlerts call failed completes as successful.
C5_UpsertFailureIsFatal ==
  \A r \in Runs : obs[r].upsertFailed > 0 => outcome[r] # "resolved"

\* C6: whenever execute() rejects, the alerts table is identical to its
\* content before that run started.
C6_AbortLeavesStoreUntouched ==
  \A r \in Runs : outcome[r] = "rejected" => store = obs[r].store0

\* C7: within one run upsertAlerts is invoked exactly once when the run
\* produced an alert and not at all when it produced none, and only after
\* every rule of the run has been resolved.
C7_SingleUpsert ==
  \A r \in Runs :
    /\ obs[r].upsertCalls <= 1
    /\ (LoopEnded(r) /\ Len(alerts[r]) > 0) => obs[r].upsertCalls = 1
    /\ (LoopEnded(r) /\ Len(alerts[r]) = 0) => obs[r].upsertCalls = 0
    /\ \A k \in 1..Len(obs[r].calledAfter) :
         obs[r].calledAfter[k] = Len(loopRules[r])

\* C8: at most one run is active at a time: while an execute() has not
\* settled, no step of another execute() of the same use case takes place.
C8_OneRunAtATime == Cardinality({r \in Runs : pc[r] # "idle"}) <= 1

\* C9: if getRules fails during a run, execute() rejects, no rule is
\* evaluated and no upsert is performed.
C9_RuleLoadFatal ==
  \A r \in Runs :
    obs[r].loadFailed =>
      /\ outcome[r] = "rejected"
      /\ obs[r].fetches = 0 /\ obs[r].resolved = 0
      /\ obs[r].upsertCalls = 0
      /\ store = obs[r].store0

\* C9 witness: a run whose health probe succeeded was rejected at the rule
\* load while the rule table held rules
C9_Witness ==
  \E r \in Runs :
    /\ obs[r].loadFailed /\ outcome[r] = "rejected"
    /\ obs[r].probe = "healthy" /\ ruleStore # <<>>

\* C10: when the rule store returns no rule and the health probe succeeded,
\* the run resolves with zero alerts, fetches no metric, calls no upsert and
\* records a last-run summary with alert count 0.
C10_EmptyRuleSet ==
  \A r \in Runs :
    (LoopEnded(r) /\ loopRules[r] = <<>>) =>
      /\ outcome[r] = "resolved"
      /\ alerts[r] = <<>>
      /\ obs[r].fetches = 0
      /\ obs[r].upsertCalls = 0
      /\ getLastRunInfo = [lastRunAt |-> now, alertsCount |-> 0]

\* C10 witness: with the database enabled and an empty rule table, a run
\* has resolved and reset the summary left by an earlier run with alerts
C10_Witness ==
  \E r \in Runs :
    /\ LoopEnded(r) /\ loopRules[r] = <<>> /\ pool
    /\ obs[r].probe = "degraded"
    /\ outcome[r] = "resolved"
    /\ Len(obs[r].alerts0) > 0
    /\ getLastRunInfo.alertsCount = 0

\* the last-run summary as its two getters return it
Summary == [info |-> getLastRunInfo, alerts |-> getLastRunAlerts]

\* a settled run left the summary it found, when it rejected, or its own
\* alerts and completion time, when it resolved
SummaryAfterRun ==
  \A r \in Runs :
    /\ outcome[r] = "rejected" =>
          Summary = [info   |-> [lastRunAt |-> obs[r].at0,
                                 alertsCount |-> Len(obs[r].alerts0)],
                     alerts |-> obs[r].alerts0]
    /\ outcome[r] = "resolved" =>
          Summary = [info   |-> [lastRunAt |-> now,
                                 alertsCount |-> Len(alerts[r])],
                     alerts |-> alerts[r]]

\* the summary changes only in the step in which a run resolves
SummaryChangesOnSuccess ==
  Summary' # Summary =>
    \E r \in Runs : outcome[r] = "pending" /\ outcome'[r] = "resolved"

C12_HealthReportsLastRun ==
  (healthObs.served /\ healthObs.afterSuccess) =>
    /\ health.lastRunAt = healthObs.info.lastRunAt
    /\ health.alertsCountLastRun = healthObs.info.alertsCount

\* the meaning of `v OP t` for the six operators
Holds(op, v, t) ==
  CASE op = <<"<", "=">> -> v <= t
    [] op = <<">", "=">> -> v >= t
    [] op = <<"<">>      -> v < t
    [] op = <<">">>      -> v > t
    [] op = <<"=", "=">> -> v = t
    [] op = <<"!", "=">> -> v # t

\* the call of evaluate has returned or thrown, for a rule of the type
Evaluated(type) == call.kind = "call" /\ call.done /\ call.rule.type = type

\* C13: for a threshold rule whose condition is `value OP t`, OP one of the
\* six operators and t a number, evaluate returns triggered = (value OP t);
\* a `<=` or `>=` condition triggers at value = t and is never evaluated as
\* the strict operator.
C13_ThresholdSemantics ==
  Evaluated("threshold") =>
    /\ ~call.result.threw
    /\ call.result.triggered = Holds(call.form.op, call.value, call.form.a)
    /\ (call.form.op \in {<<"<", "=">>, <<">", "=">>} /\ call.value = call.form.a)
         => call.result.triggered

\* C13 witness: `value <= -1` has been evaluated at value = -1 and triggered
C13_Witness ==
  /\ Evaluated("threshold")
  /\ call.form.op = <<"<", "=">>
  /\ call.form.a = 0 - 1
  /\ call.value = call.form.a
  /\ ~call.result.threw
  /\ call.result.triggered

\* C14: for every band rule whose condition is `L < value AND value <= U`
\* with numeric bounds of either sign, evaluate returns triggered exactly
\* when L < value and value <= U.
C14_BandHalfOpen ==
  Evaluated("band") =>
    /\ ~call.result.threw
    /\ call.result.triggered = (call.form.a < call.value /\ call.value <= call.form.b)

\* the threshold stage of the call: evaluateThreshold on its rule and value
ThresholdStage == evaluateThreshold(call.rule, call.value, EvalMeta)

\* the trend stage of the call: evaluateTrend on its trend and series
TrendStage == evaluateTrend(call.rule.trend, call.trendValues)

C17_BandThenTrend ==
  (Evaluated("threshold_with_trend") /\ call.form.form = "band") =>
    /\ ~call.result.threw
    /\ (call.result.reason = "threshold_not_met")
         = ~(call.form.a < call.value /\ call.value <= call.form.b)
    /\ call.result.triggered =
         (call.form.a < call.value /\ call.value <= call.form.b
            /\ TrendStage.triggered)

\* the threshold of the call has passed and its trend rule is `name`
TrendEvaluated(name) ==
  /\ Evaluated("threshold_with_trend")
  /\ ~ThresholdStage.threw /\ ThresholdStage.triggered
  /\ call.rule.trend.rule = name

\* the window the trend is evaluated on: the last windowPoints values,
\* every value for windowPoints = 0
Window ==
  LET n == call.rule.trend.windowPoints
      k == Len(call.trendValues)
  IN  IF n = 0 \/ n >= k THEN call.trendValues
      ELSE SubSeq(call.trendValues, k - n + 1, k)

\* current >= previous on numbers: false when either is not a number
AtLeast(current, previous) ==
  ~current.nan /\ ~previous.nan /\ current.num >= previous.num

\* current > previous on numbers: false when either is not a number
Above(current, previous) ==
  ~current.nan /\ ~previous.nan /\ current.num > previous.num

Enough == Len(call.trendValues) >= call.rule.trend.windowPoints

\* C18: the non_decreasing trend passes exactly when every adjacent pair of
\* the evaluated window satisfies current >= previous; a strict decrease
\* anywhere in the window fails it with reason trend_not_non_decreasing, and
\* equal neighbours do not fail it.
C18_NonDecreasing ==
  (TrendEvaluated("non_decreasing") /\ Enough) =>
    /\ call.result.triggered =
         (\A i \in 2..Len(Window) : AtLeast(Window[i], Window[i - 1]))
    /\ ~call.result.triggered => call.result.reason = "trend_not_non_decreasing"

\* C19: the at_least_4_of_5_increasing trend passes exactly when the number
\* of adjacent pairs with a strict increase in the evaluated window is at
\* least 4, for every windowPoints; otherwise it fails with reason
\* trend_insufficient_increases.
C19_AtLeast4Increasing ==
  (TrendEvaluated("at_least_4_of_5_increasing") /\ Enough) =>
    /\ call.result.triggered =
         (Cardinality({i \in 2..Len(Window) : Above(Window[i], Window[i - 1])}) >= 4)
    /\ TrendStage.reason = IF call.result.triggered
                             THEN "trend_at_least_4_increasing"
                             ELSE "trend_insufficient_increases"
    /\ ~call.result.triggered => call.result.reason = "trend_insufficient_increases"

\* C19 witness: with windowPoints = 0 a series of 5 strictly increasing
\* values (4 increases) has passed
C19_Witness ==
  /\ TrendEvaluated("at_least_4_of_5_increasing") /\ Enough
  /\ call.rule.trend.windowPoints = 0
  /\ Len(call.trendValues) = 5
  /\ \A i \in 2..5 : Above(call.trendValues[i], call.trendValues[i - 1])
  /\ call.result.triggered
  /\ call.result.reason = "threshold_and_trend_met"

\* C20: when the threshold has passed and the series holds fewer than
\* windowPoints values, the result is triggered = false with reason
\* insufficient_points, whatever the trend rule name and the values are.
C20_InsufficientPoints ==
  (Evaluated("threshold_with_trend")
     /\ ~ThresholdStage.threw /\ ThresholdStage.triggered /\ ~Enough) =>
    /\ ~call.result.threw
    /\ ~call.result.triggered
    /\ call.result.reason = "insufficient_points"

\* C20 witness: an unknown trend rule over 2 increasing values against a
\* window of 3 points gave insufficient_points
C20_Witness ==
  /\ TrendEvaluated("other") /\ ~Enough
  /\ call.rule.trend.windowPoints = 3
  /\ call.trendValues = <<Num(0), Num(1)>>
  /\ call.result.reason = "insufficient_points"

\* the latest point of the metric of a rule
CurrentPoint(rule, src) ==
  src[rule.metricId].points[Len(src[rule.metricId].points)]

\* the evaluation of a rule over the metrics source ended with triggered
Triggers(rule, src) ==
  LET metricData == fetchMetricData(rule, src)
  IN  /\ metricData.kind = "data"
      /\ ~evaluateRuleCondition(rule, metricData).threw
      /\ evaluateRuleCondition(rule, metricData).triggered

\* identity, time, level and message of an alert
Headline(alertId, ts, level, message) ==
  [alertId |-> alertId, ts |-> ts, level |-> level, message |-> message]

\* per triggered rule of a list, in order, what its alert has to carry
RECURSIVE ExpectedHeadlines(_, _)
ExpectedHeadlines(ruleList, src) ==
  IF ruleList = <<>> THEN <<>>
  ELSE LET rule == Head(ruleList)
       IN  (IF Triggers(rule, src)
              THEN <<Headline(rule.alertId, CurrentPoint(rule, src).ts,
                              rule.level, rule.message)>>
              ELSE <<>>)
             \o ExpectedHeadlines(Tail(ruleList), src)

Headlines(batch) ==
  [k \in 1..Len(batch) |->
     Headline(batch[k].alertId, batch[k].ts, batch[k].level, batch[k].message)]

BatchKeys(batch) == {AlertKey(batch[k]) : k \in 1..Len(batch)}

\* C21: an alert is created for a rule exactly when its evaluation is
\* triggered; the alert carries the alertId, the configured level and the
\* message of the rule and, as ts, the timestamp of the metric point used as
\* current value; a later run over the same snapshot produces the same
\* (alertId, ts) keys.
C21_AlertFromRule ==
  \A r \in Runs :
    (LoopEnded(r) /\ obs[r].stable) =>
      /\ Headlines(alerts[r]) = ExpectedHeadlines(loopRules[r], source)
      /\ obs[r].first => BatchKeys(alerts[r]) = BatchKeys(obs[r].alerts0)

\* C21 witness: a second run over an unchanged snapshot, at a later time
\* than the first, has produced two alerts from five rules; their ts is
\* the time of the metric point, not the time of the run
C21_Witness ==
  \E r \in Runs :
    /\ LoopEnded(r) /\ obs[r].stable /\ obs[r].first
    /\ now = 2
    /\ Len(loopRules[r]) = 5
    /\ Len(alerts[r]) = 2
    /\ \A k \in 1..2 : alerts[r][k].ts = 1 /\ alerts[r][k].level = "amber"

\* the events of a makeRequest call so far
Requests == SelectSeq(req.trace, LAMBDA e : e.ev = "request")

Sleeps == SelectSeq(req.trace, LAMBDA e : e.ev = "sleep")

\* a failure after which the client is meant to try again: no HTTP
\* response, or status >= 500, 408 or 429
Retryable(error) ==
  error.status = 0 \/ error.status >= 500 \/ error.status \in {408, 429}

\* C22: a failed attempt of makeRequest is followed by another attempt only
\* if the failure is retryable; a failure with any other HTTP status is
\* thrown to the caller right after that attempt, with no further request
\* and no backoff sleep.
C22_RetryOnlyRetryable ==
  req.kind = "request" =>
    \A i \in 1..Len(req.trace) :
      req.trace[i].ev = "failure" =>
        /\ i < Len(req.trace) => Retryable(req.trace[i].error)
        /\ ~Retryable(req.trace[i].error) =>
              /\ req.at = "thrown"
              /\ req.settled = req.trace[i].error
              /\ Len(Sleeps) = req.trace[i].error.attempt
              /\ Len(Requests) = req.trace[i].error.attempt + 1

\* C22 witness: with two retries left, the second attempt failed with 404
\* after a retried 503, and the 404 was thrown after two requests and one
\* sleep
C22_Witness ==
  /\ req.kind = "request" /\ req.retries = 2
  /\ req.at = "thrown"
  /\ req.settled = Failure(1, TRUE, 404)
  /\ Len(Requests) = 2 /\ Len(Sleeps) = 1
  /\ req.trace[2].error = Failure(0, TRUE, 503)

\* the call has returned or thrown
Settled == req.kind = "request" /\ req.at \in {"returned", "thrown"}

RequestBounded ==
  req.kind = "request" =>
    /\ Len(Requests) <= req.retries + 1
    /\ req.at = "returned" =>
          /\ req.trace[Len(req.trace)].ev = "response"
          /\ req.settled.attempt = req.trace[Len(req.trace)].attempt
          /\ \A i \in 1..(Len(req.trace) - 1) : req.trace[i].ev # "response"
    /\ req.at = "thrown" =>
          /\ req.trace # <<>>
          /\ req.trace[Len(req.trace)].ev = "failure"
          /\ req.settled = req.trace[Len(req.trace)].error
          /\ req.settled.attempt = Len(Requests) - 1

NoPoints(rule, src) ==
  src[rule.metricId].up /\ src[rule.metricId].points = <<>>

\* a rule list without the rules whose metric has no point
RECURSIVE WithData(_, _)
WithData(ruleList, src) ==
  IF ruleList = <<>> THEN <<>>
  ELSE (IF NoPoints(Head(ruleList), src) THEN <<>> ELSE <<Head(ruleList)>>)
         \o WithData(Tail(ruleList), src)

\* C23: a rule whose metric id is reported missing by the metrics source, or
\* whose fetched series is empty, produces no alert and raises no error; the
\* run continues with the remaining rules, and its alerts and outcome are
\* those of the run without that rule.
C23_MissingMetricSkipped ==
  \A r \in Runs :
    (LoopEnded(r) /\ obs[r].stable) =>
      /\ Len(obs[r].verdicts) = Len(loopRules[r])
      /\ \A k \in 1..Len(loopRules[r]) :
           NoPoints(loopRules[r][k], source) =>
             /\ obs[r].verdicts[k] = "null"
             /\ \A j \in 1..Len(alerts[r]) :
                  alerts[r][j].alertId # loopRules[r][k].alertId
      /\ alerts[r] = TriggeredAlerts(WithData(loopRules[r], source), source)
      /\ outcome[r] = "rejected" => obs[r].upsertFailed > 0

\* C23 witness: a run took a rule whose metric is missing from the latest
\* values, a window rule and a trend rule with an empty series, and resolved
\* with the alerts of the two other rules
C23_Witness ==
  \E r \in Runs :
    /\ LoopEnded(r) /\ obs[r].stable
    /\ obs[r].verdicts = <<"alert", "null", "alert", "null", "null">>
    /\ \A k \in {2, 4, 5} : NoPoints(loopRules[r][k], source)
    /\ obs[r].threw = 0
    /\ outcome[r] = "resolved"

\* upsertAlerts of run r has returned (its transaction is committed)
Committed(r) == obs[r].upsertCalls > 0 /\ Len(obs[r].results) = obs[r].upsertCalls

\* both calls have returned or thrown
BothSettled == \A r \in Runs : pc[r] = "idle" /\ outcome[r] # "none"

\* the row carries what run r submitted last for its key
WrittenBy(row, r) ==
  \E k \in 1..Len(alerts[r]) :
    /\ Key(row) = AlertKey(alerts[r][k])
    /\ Audited(row) = Audited(Row(LastWithKey(alerts[r], k), 0))

\* C24: when two runs upsert batches with overlapping (alertId, ts) keys
\* concurrently, under every interleaving of their row upserts the table
\* ends with exactly one row per key, and the level, message and payload of
\* each row are those written by one of the two runs.
C24_ConcurrentUpserts ==
  /\ UniqueKeys
  /\ BothSettled =>
        /\ Keys(store) = Keys(obs[1].store0)
                           \cup UNION {BatchKeys(alerts[r]) : r \in {q \in Runs : Committed(q)}}
        /\ \A row \in store :
             \/ \E r \in Runs : Committed(r) /\ WrittenBy(row, r)
             \/ /\ row \in obs[1].store0
                /\ \A r \in Runs : Committed(r) => Key(row) \notin BatchKeys(alerts[r])

\* C24 witness: both calls have committed batches holding the same two keys
\* in opposite orders, over a table that already held one of the keys
C24_Witness ==
  /\ BothSettled
  /\ \A r \in Runs : Committed(r) /\ Len(alerts[r]) = 2
  /\ alerts[1][1].alertId = "a1" /\ alerts[2][1].alertId = "a2"
  /\ obs[1].store0 = {OldRow}
  /\ Cardinality(store) = 2

\* the steps of execute() in their order; "store" and "persist" are the two
\* places of the persist step, "idle" after a start is the settled run
Rank(at) ==
  CASE at = "health" -> 1
    [] at = "load" -> 2
    [] at = "eval" -> 3
    [] at \in {"store", "persist"} -> 4
    [] OTHER -> 5

\* what a run has done so far respects the order of the steps
StepsInOrder ==
  \A r \in Runs :
    /\ obs[r].loads > 0 => obs[r].probe \in HealthOutcomes \ {"fail"}
    /\ obs[r].fetches > 0 =>
          /\ obs[r].loads > 0 /\ ~obs[r].loadFailed
          /\ Rank(pc[r]) > 2
    /\ obs[r].upsertCalls > 0 =>
          /\ obs[r].fetches = Len(loopRules[r])
          /\ obs[r].resolved = Len(loopRules[r])
          /\ \A k \in 1..Len(obs[r].calledAfter) :
               obs[r].calledAfter[k] = Len(loopRules[r])
    /\ outcome[r] = "resolved" =>
          /\ obs[r].loads = 1
          /\ obs[r].resolved = Len(loopRules[r])
          /\ obs[r].upsertCalls > 0 => Len(obs[r].results) > 0

\* a run in flight never goes back to an earlier step
StepsAdvance ==
  \A r \in Runs : pc[r] # "idle" => Rank(pc'[r]) >= Rank(pc[r])

C26_DegradedProceeds ==
  \A r \in Runs :
    obs[r].probe = "degraded" =>
      /\ obs[r].loads = 1
      /\ pc[r] # "health"
      /\ outcome[r] = "rejected" => (obs[r].loadFailed \/ obs[r].upsertFailed > 0)
      /\ (LoopEnded(r) /\ obs[r].stable) =>
            /\ obs[r].fetches = Len(loopRules[r])
            /\ alerts[r] = TriggeredAlerts(loopRules[r], source)

\* C26 witness: a run whose probe answered 'degraded' has evaluated three
\* rules and resolved with alerts stored
C26_Witness ==
  \E r \in Runs :
    /\ obs[r].probe = "degraded"
    /\ outcome[r] = "resolved"
    /\ obs[r].resolved = 3
    /\ Len(alerts[r]) > 0
    /\ store # {}

\* the metric of a rule has points and the value of the latest one does not
\* parse to a number
ValueNotANumber(rule, src) ==
  /\ src[rule.metricId].up
  /\ src[rule.metricId].points # <<>>
  /\ isNaN(parseFloat(CurrentPoint(rule, src).value))

\* C27: when the metric value of a rule is not a number, RuleEvaluator.evaluate
\* raises an error instead of returning triggered = false, and the run treats
\* the rule as skipped: it contributes no alert and the run does not fail.
C27_NaNValueSkipsRule ==
  \A r \in Runs :
    (LoopEnded(r) /\ obs[r].stable) =>
      /\ \A k \in 1..Len(loopRules[r]) :
           ValueNotANumber(loopRules[r][k], source) =>
             /\ evaluateRuleCondition(loopRules[r][k],
                                      fetchMetricData(loopRules[r][k], source)).threw
             /\ obs[r].verdicts[k] = "throw"
             /\ \A j \in 1..Len(alerts[r]) :
                  alerts[r][j].alertId # loopRules[r][k].alertId
      /\ obs[r].resolved = Len(loopRules[r])
      /\ outcome[r] = "rejected" => obs[r].upsertFailed > 0

\* C27 witness: the latest value of m1 is 'x'; the rule `value <= 2` over it
\* threw, the trend rule after it produced no error, and the run resolved
C27_Witness ==
  \E r \in Runs :
    /\ LoopEnded(r) /\ obs[r].stable
    /\ loopRules[r] = <<rBad, rLow, rTrend>>
    /\ ValueNotANumber(rLow, source)
    /\ obs[r].verdicts = <<"throw", "throw", "null">>
    /\ outcome[r] = "resolved"

\* the last n values of a series that holds at least n values
LastPoints(values, n) == SubSeq(values, Len(values) - n + 1, Len(values))

\* the trend result for the last windowPoints values of the series alone
OverLastPoints ==
  evaluateTrend(call.rule.trend,
                LastPoints(call.trendValues, call.rule.trend.windowPoints))

\* C28: for every windowPoints >= 0 and every series holding at least
\* windowPoints values, the trend is evaluated over exactly the last
\* windowPoints values: the verdict and reason for the series are those for
\* its last windowPoints values alone, whatever the older values are.
C28_LastWindowOnly ==
  (Evaluated("threshold_with_trend") /\ ~ThresholdStage.threw
     /\ ThresholdStage.triggered /\ Enough) =>
    /\ call.result.triggered = OverLastPoints.triggered
    /\ ~call.result.triggered => call.result.reason = OverLastPoints.reason

\* for windows of at least one point the verdict is that of the last
\* windowPoints values
PositiveWindowOnly ==
  (call.kind = "call" /\ call.rule.trend.windowPoints > 0) => C28_LastWindowOnly

\* the fetched series of the rule of the call
FetchedPoints == call.src[call.rule.metricId].points

\* the latest-value items with the metric id of the rule
OwnItems ==
  SelectSeq(call.src[call.rule.metricId].items,
            LAMBDA item : item.metric_id = call.rule.metricId)

\* the value texts of the fetched series as numbers, in order
AllPointValues ==
  [i \in 1..Len(FetchedPoints) |-> parseFloat(FetchedPoints[i].value)]

\* C29: the data used for a rule follows its type: for a
\* threshold_with_trend rule with a trend spec the current value is the last
\* point of the fetched series and the trend series is all fetched points in
\* order; for a rule with a window the current value is the last point of
\* the fetched series; otherwise it is the latest-value item whose metric id
\* equals the metricId of the rule.
C29_DataByRuleType ==
  (call.kind = "fetch" /\ call.done /\ call.src[call.rule.metricId].up) =>
    IF call.rule.type = "threshold_with_trend" /\ call.rule.trend # NoTrend
      THEN IF FetchedPoints = <<>> THEN call.result = NoData
           ELSE /\ call.result.kind = "data"
                /\ call.result.value = AllPointValues[Len(FetchedPoints)]
                /\ call.result.ts = FetchedPoints[Len(FetchedPoints)].ts
                /\ call.result.trendValues = AllPointValues
    ELSE IF call.rule.window # ""
      THEN IF FetchedPoints = <<>> THEN call.result = NoData
           ELSE /\ call.result.kind = "data"
                /\ call.result.value = AllPointValues[Len(FetchedPoints)]
                /\ call.result.ts = FetchedPoints[Len(FetchedPoints)].ts
                /\ call.result.trendValues = <<>>
    ELSE IF call.rule.metricId \in call.src[call.rule.metricId].missing
              \/ OwnItems = <<>>
      THEN call.result = NoData
    ELSE /\ call.result.kind = "data"
         /\ call.result.value = parseFloat(OwnItems[1].value)
         /\ call.result.ts = OwnItems[1].ts
         /\ call.result.trendValues = <<>>

\* C29 witness: a threshold_with_trend rule with a trend spec and a window
\* got the series 1, 2 as trend series and 2 at time 2 as current value,
\* although the latest-value item of its metric says 3 at time 7
C29_Witness ==
  /\ call.kind = "fetch" /\ call.done
  /\ call.rule.type = "threshold_with_trend" /\ call.rule.trend # NoTrend
  /\ call.rule.window = "7d"
  /\ OwnItems = <<Item("m1", 7, <<"3">>)>>
  /\ call.result.kind = "data"
  /\ call.result.value = Num(2) /\ call.result.ts = 2
  /\ call.result.trendValues = <<Num(1), Num(2)>>

\* C31: every run eventually settles: provided each external call (health
\* probe, rule load, metric fetch, upsert) eventually returns or fails,
\* execute() eventually either resolves or rejects, for every rule list and
\* every pattern of per-rule failures.
C31_RunSettles ==
  \A r \in Runs :
    (outcome[r] = "pending") ~> (outcome[r] \in {"resolved", "rejected"})

\* C31 witness: a run over three rules, two of which failed, has settled
\* after its upserts
C31_Witness ==
  \E r \in Runs :
    /\ outcome[r] \in {"resolved", "rejected"}
    /\ pc[r] = "idle"
    /\ Len(loopRules[r]) = 3
    /\ obs[r].threw = 2
    /\ obs[r].upsertCalls = 2

\* upsertAlerts of run r has thrown
Failed(r) == obs[r].upsertFailed > 0

\* a step in which an upsertAlerts call throws leaves the table as it was
FailureChangesNothing ==
  (\E r \in Runs : obs'[r].upsertFailed > obs[r].upsertFailed) => store' = store

\* no row of the table carries what a call that threw submitted, and that
\* call returned no result to its caller, which got the error
FailedBatchAbsent ==
  \A r \in Runs :
    Failed(r) =>
      /\ \A row \in store : ~WrittenBy(row, r)
      /\ obs[r].results = <<>>
      /\ outcome[r] = "rejected"

CountsOfBatch(r) ==
  LET result == obs[r].results[1]
  IN  /\ result.inserted + result.updated = Len(alerts[r])
      /\ result.inserted =
           Cardinality(BatchKeys(alerts[r]) \ Keys(obs[r].store0))

\* the counts are those of the batch when no other call has committed
CountsWhenAlone ==
  \A r \in Runs :
    (Committed(r) /\ \A q \in Runs \ {r} : ~Committed(q)) => CountsOfBatch(r)

\* C33: for every successful upsertAlerts call with the database enabled,
\* inserted + updated equals the number of alerts in the batch, inserted
\* equals the number of (alertId, ts) keys of the batch that were absent from
\* the store before the call, and a key occurring twice in one batch counts
\* once as inserted (or updated) and then as updated.
C33_UpsertCounts == \A r \in Runs : Committed(r) => CountsOfBatch(r)

\* the five most recent values of the series are strictly increasing
LastFiveIncreasing ==
  /\ Len(call.trendValues) >= 5
  /\ \A i \in 2..5 :
       Above(LastPoints(call.trendValues, 5)[i], LastPoints(call.trendValues, 5)[i - 1])

\* what a window of at most 5 points allows the at_least_4_of_5_increasing
\* trend
FourOfFive ==
  /\ call.rule.trend.windowPoints <= 4 => ~call.result.triggered
  /\ call.rule.trend.windowPoints = 5 =>
       call.result.triggered = LastFiveIncreasing

\* C34: an at_least_4_of_5_increasing trend with windowPoints of 4 or less
\* never passes, whatever the series is, and with windowPoints = 5 it passes
\* exactly when the five most recent values are strictly increasing.
C34_FourOfFiveWindow ==
  TrendEvaluated("at_least_4_of_5_increasing") => FourOfFive

\* for windows of 1 to 5 points the trend passes only with windowPoints = 5
\* over five strictly increasing values
FourOfFivePositiveWindow ==
  (TrendEvaluated("at_least_4_of_5_increasing")
     /\ call.rule.trend.windowPoints > 0) => FourOfFive

\* the rows persisted at the time of the query that match its filters
PersistedMatching ==
  {row \in call.persisted : matches(row, call.from, call.to, call.level)}

\* C35: every alert persisted by a run through upsertAlerts is afterwards
\* returned by the query read path AlertsRepository.getAlerts when its ts and
\* level match the filters and the limit is not exceeded.
C35_PersistedIsListed ==
  (call.kind = "getAlerts" /\ Cardinality(PersistedMatching) <= call.limit) =>
    \A row \in PersistedMatching :
      \E i \in 1..Len(call.result) : call.result[i] = alertOfRow(row)

\* C36: for every sequence of CronScheduler.start() and stop() calls with the
\* scheduler enabled, after stop() returns isRunning() is false and no cron
\* task created by an earlier start() remains scheduled.
C36_StopStopsEveryTask ==
  (cron.enabled /\ cron.stopped) => (~isRunning /\ cron.scheduled = {})

\* after stop() the scheduler does not report that it is running
StopClearsTask == cron.stopped => ~isRunning

\* a scheduler that is started at most once has no task left after stop()
SingleStartStops ==
  (cron.stopped /\ cron.created <= 1) => cron.scheduled = {}

\* the task of a scheduler that reports that it is running is scheduled
TaskStaysScheduled == isRunning => cron.task \in cron.scheduled

\* a step in which a callback catches the error of its run changes neither
\* this.task nor the tasks of node-cron, and nothing of the runs
FailureKeepsTasks ==
  (\E r \in Runs : cron'.cb[r] = "failed" /\ cron.cb[r] # "failed") =>
    /\ cron'.task = cron.task
    /\ cron'.scheduled = cron.scheduled
    /\ pc' = pc /\ outcome' = outcome

\* a step in which a callback starts to await is a tick of a scheduled task
\* and starts a new run
TickStartsRun ==
  \A r \in Runs :
    (cron'.cb[r] = "awaiting" /\ cron.cb[r] # "awaiting") =>
      /\ cron.scheduled # {}
      /\ pc[r] = "idle" /\ pc'[r] = "health" /\ outcome'[r] = "pending"
      /\ now' = now + 1

\* C37: a scheduled run that fails does not stop the scheduler: the error of
\* runDaily is caught inside the cron callback, the task stays scheduled,
\* and the next scheduled tick starts a new run.
C37_FailedRunKeepsSchedule ==
  /\ []TaskStaysScheduled
  /\ [][FailureKeepsTasks /\ TickStartsRun]_vars

\* C37 witness: the scheduler was started once; its first run rejected and
\* the callback caught the error; the task is still scheduled and its next
\* tick has started a second run on the same use case
C37_Witness ==
  /\ cron.caught /\ cron.created = 1 /\ ~cron.stopped
  /\ isRunning /\ cron.scheduled = {1}
  /\ now = 2
  /\ outcome[2] = "none"
  /\ cron.cb[1] = "awaiting" /\ outcome[1] = "pending" /\ pc[1] = "health"

\* calculateBackoffDelay has returned
Delayed == call.kind = "backoff" /\ call.done

\* the delay is a whole number of milliseconds from 0 to backoffMaxMs
DelayInRange ==
  /\ call.result.kind = "finite"
  /\ call.result.halves % 2 = 0
  /\ call.result.halves >= 0
  /\ call.result.halves <= call.backoffMaxMs.halves

\* C38: every backoff delay computed by MetricsClient.calculateBackoffDelay
\* for attempt >= 0 is an integer between 0 and HTTP_BACKOFF_MAX_MS
\* inclusive, for every jitter value in [0, 1000).
C38_BackoffDelayInRange == Delayed => DelayInRange

\* the delay is in range whenever the power of two is finite or the base is
\* not 0
FiniteDelayInRange ==
  (Delayed /\ (call.attempt < 1024 \/ call.backoffBaseMs # Ms(0))) => DelayInRange

====
